---- MODULE Spec2Model ----
(***************************************************************************)
(* Solar simulator monitor: the automation schedule engine (Schedule.py),  *)
(* the automation window that drives it (Automation_Window.py) and the     *)
(* devices it writes to (Common_Device.py and the four drivers).           *)
(*                                                                         *)
(* Threads: the Tk main thread runs the window's callbacks one at a time;  *)
(* every Schedule.start() spawns one daemon thread running                 *)
(* Schedule._update_conditions.  A step of the worker is one statement     *)
(* that writes shared state, together with the reads that precede it;      *)
(* ScheduleRow.apply and Schedule.safestate are one step each.  Time is    *)
(* not counted: pause.minutes returns after any number of steps of the     *)
(* other threads, and so does join(2).                                     *)
(***************************************************************************)
EXTENDS Integers, Sequences, FiniteSets, TLC

\* ------------------------------------------------------------------ bounds
MaxRows == 2       \* rows the operator puts in the schedule
MaxStarts == 2     \* worker threads spawned in one behaviour
MaxOpens == 2      \* times the automation window is opened
MaxSp == 2         \* largest setpoint of a row or of a device
MaxNumber == 3     \* largest variable number passed to add_variable
MaxQueue == 1      \* commands the serial line holds for the device

\* ------------------------------------------------------------- the devices
\* The configuration: one device of each type of
\* DeviceConfiguration.DEVICE_TYPE.
Devices == {"Light", "Pressure", "Temperature", "Flow"}

\* MonitorDevice.has_enable as set by the drivers' constructors.
has_enable(d) == d \in {"Light", "Pressure", "Temperature"}

\* Schedule.__init__: the parameter of the device whose pv_name is
\* "Light intensity" is flagged off_during_equilibration.
off_during_equilibration(d) == d = "Light"

\* Python's None for a parameter value of a row, '' for an empty entry field.
None == -1
NoneStr == "None"
EmptyField == -1

VARIABLES
    conditions,  \* Schedule._conditions: sequence of rows
    running,     \* Schedule._running
    run_index,   \* Schedule._run_index
    thread_run,  \* Schedule._thread_run: a worker id, or 0 for None
    workers,     \* per spawned thread: position in _update_conditions
    nstarted,    \* number of threads spawned so far
    dev,         \* per device: is_open(), enabled state, setpoint
    log,         \* error messages passed to Schedule.logger
    ui,          \* the Tk main thread: "idle", "join" inside Schedule.stop, or
                 \* "raised" when a callback has ended by an exception
    win,         \* Schedule.automation_window: "open" or "closed" (None)
    menu,        \* state of the Start / Stop / Reset menu entries
    rows,        \* AutomationWindow.rows: index and entry fields of each WindowRow
    MAX_INDEX,   \* WindowRow.MAX_INDEX (class attribute)
    nopened,     \* number of windows opened so far
    stopped,     \* history: Schedule.stop() has been entered
    eqstop,      \* history: the row whose equilibration wait the last stop()
                 \* interrupted, -1 if none or once the schedule is started again
    call,        \* history: the last pass over the devices made on its own
    removed,     \* the positions in AutomationWindow.rows of the rows whose
                 \* widgets WindowRow.remove has destroyed
    variables,   \* Arduino._variables: name -> number, access, type
    thread_lock, \* Arduino._thread_lock: the thread that holds it, or "free"
    callers,     \* per thread: its position in read_variable / write_variable
    outq,        \* commands written to the serial line, not yet taken by the device
    inbuf,       \* lines waiting in the inbound buffer of the serial interface
    store,       \* the device: the text it holds for each variable number
    acall,       \* history: the last call of a method of a device driver, with
                 \* its arguments, what it returned and what it logged
    written,     \* the register writes the Modbus client was asked for
    attached,    \* the serial ports attached, as list_ports.comports() lists them
    known_devices,  \* KnownDevices._known_devices: name -> identity
    known_file,  \* what load() gets from config/known_devices.json
    custom_id_cache,  \* KnownDevices._custom_id_cache: port -> custom id
    reachable,   \* per device: what answers on its port, see Reach
    serial_iface,  \* per Arduino device: Arduino._serial_iface, its is_open
    instrument,  \* MassFlowController._instrument: NoneStr or "instrument"
    modbus_client  \* TemperatureControl._modbus_client: whether it was made,
                 \* its `connected` and whether its port is open

\* The state of the schedule, of its window and of the devices it drives.
schedvars == <<conditions, running, run_index, thread_run, workers, nstarted,
               dev, log, ui, win, menu, rows, MAX_INDEX, nopened, stopped,
               eqstop, call, removed>>

\* The state of one Arduino device and of its serial line.
\* The state of the Modbus client of the temperature controller.
bus == <<written>>

\* The state of the table of known devices and of the ports.
registry == <<attached, known_devices, known_file, custom_id_cache>>

\* The ports of the devices and the connection each driver holds.
links == <<reachable, serial_iface, instrument, modbus_client>>

periph == <<variables, thread_lock, callers, outq, inbuf, store, acall, bus,
            registry, links>>

vars == <<conditions, running, run_index, thread_run, workers, nstarted, dev,
          log, ui, win, menu, rows, MAX_INDEX, nopened, stopped, eqstop, call,
          removed, periph>>

WorkerIds == 1..MaxStarts

Statuses == {NoneStr, "ready", "equilibrating", "running", "done"}

\* ScheduleRow.__init__: every parameter value is None.
NewScheduleRow == [status |-> NoneStr, title |-> NoneStr, eq |-> None,
                   dur |-> None, sp |-> None]

\* What the operator types in a window row: a title, the two times in
\* minutes and a setpoint, the same for every device.
RowInputs == {[title |-> "t", eq |-> 0, dur |-> 0, sp |-> 1]}

\* ------------------------------------------------------- device operations
\* MonitorDevice.write_onoff / write_sp / read_onoff on a device that answers.
write_onoff(st, on) == [st EXCEPT !.on = on]

write_sp(st, sp) == [st EXCEPT !.sp = sp]

read_onoff(st) == st.on

\* TemperatureControl.write_sp -> MappedModbusClient.write_register: a value
\* that is neither a number nor a string leaves `val` unbound and raises.
write_sp_raises(d, value) == d = "Temperature" /\ value = None

\* Order of Schedule.parameters (the order of the configured devices).
DeviceOrder == <<"Light", "Pressure", "Temperature", "Flow">>

\* A loop body that pushes the setpoint whatever the equilibration flag.
ApplyParameterFlagIgnored(d, st, value, equilibration) ==
    LET st1 == IF has_enable(d) /\ ~read_onoff(st) THEN write_onoff(st, TRUE) ELSE st
    IN IF write_sp_raises(d, value) THEN st1 ELSE write_sp(st1, value)

\* ScheduleRow.apply, body of the loop for one device-linked parameter.
ApplyParameter(d, st, value, equilibration) ==
    IF off_during_equilibration(d) /\ equilibration
    THEN IF has_enable(d) THEN write_onoff(st, FALSE) ELSE write_sp(st, 0)
    ELSE LET st1 == IF has_enable(d) /\ ~read_onoff(st)
                    THEN write_onoff(st, TRUE) ELSE st
         IN IF write_sp_raises(d, value) THEN st1 ELSE write_sp(st1, value)

\* Whether the loop body of ScheduleRow.apply raises for this device.
ApplyRaises(d, st, value, equilibration) ==
    /\ st.open
    /\ ~(off_during_equilibration(d) /\ equilibration)
    /\ write_sp_raises(d, value)

\* ScheduleRow.apply from the i-th parameter on: the devices' state, the
\* errors logged and whether an exception ended the loop.
RECURSIVE ApplyFrom(_, _, _, _, _)

\* A loop that ends at the first device that is not open (return in place
\* of continue).
ApplyFromAborting(i, d0, lg, value, equilibration) ==
    IF i > Len(DeviceOrder) THEN [dev |-> d0, log |-> lg, raised |-> FALSE]
    ELSE LET d == DeviceOrder[i]
         IN IF ~d0[d].open
            THEN [dev |-> d0, log |-> lg \cup {<<"apply", d>>}, raised |-> FALSE]
            ELSE LET d1 == [d0 EXCEPT ![d] = ApplyParameter(d, d0[d], value, equilibration)]
                 IN IF ApplyRaises(d, d0[d], value, equilibration)
                    THEN [dev |-> d1, log |-> lg, raised |-> TRUE]
                    ELSE ApplyFrom(i + 1, d1, lg, value, equilibration)

ApplyFrom(i, d0, lg, value, equilibration) ==
    IF i > Len(DeviceOrder) THEN [dev |-> d0, log |-> lg, raised |-> FALSE]
    ELSE LET d == DeviceOrder[i]
         IN IF ~d0[d].open
            THEN ApplyFrom(i + 1, d0, lg \cup {<<"apply", d>>}, value, equilibration)
            ELSE LET d1 == [d0 EXCEPT ![d] = ApplyParameter(d, d0[d], value, equilibration)]
                 IN IF ApplyRaises(d, d0[d], value, equilibration)
                    THEN [dev |-> d1, log |-> lg, raised |-> TRUE]
                    ELSE ApplyFrom(i + 1, d1, lg, value, equilibration)

apply(row, d0, lg, equilibration) == ApplyFrom(1, d0, lg, row.sp, equilibration)

\* A loop body that flips the enable in place of writing it off.
SafeParameterToggle(d, st) ==
    IF ~st.open THEN st
    ELSE IF has_enable(d) THEN write_onoff(st, ~read_onoff(st)) ELSE write_sp(st, 0)

\* Schedule.safestate, body of the loop for one device.
SafeParameter(d, st) ==
    IF ~st.open THEN st
    ELSE IF has_enable(d) THEN write_onoff(st, FALSE) ELSE write_sp(st, 0)

\* A safe-state pass that switches off the devices with an enable and leaves
\* the setpoint of the others.
safestate_enable_only(d0) ==
    [d \in Devices |-> IF has_enable(d) THEN SafeParameter(d, d0[d]) ELSE d0[d]]

\* Schedule.safestate: nothing is logged for a device that is not open.
safestate(d0) == [d \in Devices |-> SafeParameter(d, d0[d])]

\* ------------------------------------------------------ the window's rows
NoFields == [title |-> "", eq |-> EmptyField, dur |-> EmptyField, sp |-> EmptyField]

\* WindowRow.empty
empty(f) == f.title = "" /\ f.eq = EmptyField /\ f.dur = EmptyField /\ f.sp = EmptyField

\* WindowRow.update_from_schedule: a field is filled only `if value`, so None,
\* '' and 0.0 all leave the entry empty.
FieldOf(value) == IF value = None \/ value = 0 THEN EmptyField ELSE value

TitleFieldOf(title) == IF title = NoneStr THEN "" ELSE title

update_from_schedule(row) ==
    [title |-> TitleFieldOf(row.title), eq |-> FieldOf(row.eq),
     dur |-> FieldOf(row.dur), sp |-> FieldOf(row.sp)]

\* WindowRow.update_to_schedule: the fields are copied in the order of the
\* parameters; float('') raises ValueError and leaves the earlier ones copied.
update_to_schedule(row, f) ==
    IF empty(f) THEN [row |-> row, ok |-> TRUE]
    ELSE LET r1 == [row EXCEPT !.title = f.title]
             r2 == [r1 EXCEPT !.eq = f.eq]
             r3 == [r2 EXCEPT !.dur = f.dur]
             r4 == [r3 EXCEPT !.sp = f.sp]
         IN IF f.eq = EmptyField THEN [row |-> r1, ok |-> FALSE]
            ELSE IF f.dur = EmptyField THEN [row |-> r2, ok |-> FALSE]
            ELSE IF f.sp = EmptyField THEN [row |-> r3, ok |-> FALSE]
            ELSE [row |-> r4, ok |-> TRUE]

\* AutomationWindow.update_fields_to_schedule, the loop over self.rows from
\* the k-th window row on (the k-th window row is linked to the k-th row of
\* the schedule).  For a row that was removed WindowRow.empty() reads a
\* destroyed entry and raises TclError.
RECURSIVE SyncFrom(_, _, _, _)
SyncFrom(k, conds, wrows, gone) ==
    IF k > Len(wrows) \/ k > Len(conds) THEN [conds |-> conds, ok |-> TRUE]
    ELSE IF k \in gone THEN [conds |-> conds, ok |-> FALSE]
    ELSE LET u == update_to_schedule(conds[k], wrows[k].fields)
             c1 == [conds EXCEPT ![k] = u.row]
         IN IF u.ok THEN SyncFrom(k + 1, c1, wrows, gone)
            ELSE [conds |-> c1, ok |-> FALSE]

\* AutomationWindow.update_fields_to_schedule: after the loop the schedule
\* is cut down to WindowRow.MAX_INDEX rows.
update_fields_to_schedule(conds, wrows, maxidx, gone) ==
    LET s == SyncFrom(1, conds, wrows, gone)
    IN IF ~s.ok THEN s
       ELSE [conds |-> IF Len(s.conds) > maxidx THEN SubSeq(s.conds, 1, maxidx)
                       ELSE s.conds,
             ok |-> TRUE]

\* AutomationWindow.get_row: the window row whose index is `index`, if any.
has_row(wrows, index) == \E k \in 1..Len(wrows) : wrows[k].index = index

\* AutomationWindow.get_row: the position in self.rows of the first row
\* whose index is `index`, 0 for None.
get_row(wrows, index) ==
    IF has_row(wrows, index)
    THEN CHOOSE k \in 1..Len(wrows) :
            /\ wrows[k].index = index
            /\ \A j \in 1..(k - 1) : wrows[j].index # index
    ELSE 0

\* AutomationWindow.enable_start
enable_start(enable) == [start |-> enable, stop |-> ~enable, reset |-> enable]

\* AutomationWindow.reset_schedule
reset_schedule(conds) == [k \in 1..Len(conds) |-> [conds[k] EXCEPT !.status = "ready"]]

\* ------------------------------------------------- Arduino: the variables
\* Arduino._access_R, _access_W, _access_RW and the access stored for each.
access_R == {"r", "R"}

access_W == {"w", "W"}

access_RW == {"rw", "RW"}

ValidTypes == {"int", "float", "str", "none"}

NoVariables == [n \in {} |-> n]

\* The numbers of the variables of a table.
NumbersOf(tab) == {tab[n].number : n \in DOMAIN tab}

\* An add_variable that does not look for the number in the table.
add_variable_any_number(tab, name, number, access, type) ==
    IF number <= 0 THEN [variables |-> tab, error |-> "number"]
    ELSE IF access \notin access_R \cup access_W \cup access_RW
         THEN [variables |-> tab, error |-> "access"]
    ELSE IF type \notin ValidTypes THEN [variables |-> tab, error |-> "type"]
    ELSE [variables |-> [n \in DOMAIN tab \cup {name} |->
                            IF n = name
                            THEN [number |-> number,
                                  access |-> IF access \in access_R THEN "r"
                                             ELSE IF access \in access_W THEN "w" ELSE "rw",
                                  type |-> type]
                            ELSE tab[n]],
          error |-> "none"]

\* Arduino.add_variable: the table after the call and the errors logged.
\* The number is compared with the number of every entry of the table, the
\* entry of `name` itself included.
add_variable(tab, name, number, access, type) ==
    IF number <= 0 THEN [variables |-> tab, error |-> "number"]
    ELSE IF number \in NumbersOf(tab) THEN [variables |-> tab, error |-> "duplicate"]
    ELSE IF access \notin access_R \cup access_W \cup access_RW
         THEN [variables |-> tab, error |-> "access"]
    ELSE IF type \notin ValidTypes THEN [variables |-> tab, error |-> "type"]
    ELSE LET entry == [number |-> number,
                       access |-> IF access \in access_R THEN "r"
                                  ELSE IF access \in access_W THEN "w" ELSE "rw",
                       type |-> type]
         IN [variables |-> [n \in DOMAIN tab \cup {name} |->
                               IF n = name THEN entry ELSE tab[n]],
             error |-> "none"]

\* Arduino.__init__: the table holds ID, number 1.
ArduinoVariables == add_variable(NoVariables, "ID", 1, "rw", "str").variables

NoDriverCall == [op |-> "none"]

\* The threads that call the drivers: the Tk thread, the thread that polls
\* the readouts and the schedule worker.
Threads == {"ui", "poller", "worker"}

Idle == [pc |-> "idle"]

\* The serial line of a new Arduino: closed, nothing sent or received.
InitLine ==
    /\ thread_lock = "free"
    /\ callers = [t \in Threads |-> Idle]
    /\ outq = <<>>
    /\ inbuf = <<>>
    /\ store = NoVariables

\* A new MappedModbusClient: nothing written.
InitBus == written = <<>>

\* config/known_devices.json as in the scenario of one back pressure
\* regulator known by its serial number, with a device known by vendor and
\* product and one told apart by its custom id.
KnownDevicesFile ==
    [BPR1 |-> [serial_number |-> "ABC123"],
     Lamp |-> [vid |-> 1, pid |-> 2],
     MFC |-> [vid |-> 1, pid |-> 3, custom_id |-> "mfc"],
     MFC2 |-> [vid |-> 1, pid |-> 3, custom_id |-> "mfc2"]]

\* No known devices: _known_devices is None, or a table with no entry;
\* `not self._known_devices` either way.
NoKnownDevices == [name \in {} |-> name]

\* KnownDevices.__init__, with no port attached.
InitRegistry ==
    /\ attached = <<>>
    /\ known_devices = NoKnownDevices
    /\ known_file = KnownDevicesFile
    /\ custom_id_cache = NoKnownDevices

\* What is at the other end of the port of a device: nothing (the port is
\* gone), a port that opens with a device that does not answer, or the
\* device.
Reach == {"none", "port", "device"}

\* The devices driven through the Arduino class.
ArduinoDevices == {"Light", "Pressure"}

\* Arduino.__init__, MassFlowController.__init__, TemperatureControl.__init__:
\* no connection; MappedModbusClient.connected is False until connect().
InitLinks ==
    /\ reachable = [d \in Devices |-> "device"]
    /\ serial_iface = [d \in ArduinoDevices |-> [is_open |-> FALSE]]
    /\ instrument = NoneStr
    /\ modbus_client = [made |-> FALSE, connected |-> FALSE, port_open |-> FALSE]

InitPeriph ==
    /\ InitLinks
    /\ variables = ArduinoVariables
    /\ InitLine
    /\ acall = NoDriverCall
    /\ InitBus
    /\ InitRegistry

\* ---------------------------------------------- Arduino: values and text
\* A Python value is its type and its content: an int, a float (counted in
\* tenths), a str (its characters) or None.  Text on the serial line is a
\* sequence of characters.
PyInt(n) == [t |-> "int", v |-> n]

PyFloat(tenths) == [t |-> "float", v |-> tenths]

PyStr(cs) == [t |-> "str", v |-> cs]

PyNone == [t |-> "None", v |-> 0]

DigitChars == <<"0", "1", "2", "3", "4", "5", "6", "7", "8", "9">>

IsDigit(c) == \E i \in 1..10 : DigitChars[i] = c

DigitVal(c) == (CHOOSE i \in 1..10 : DigitChars[i] = c) - 1

Whitespace == {" ", "\n"}

\* The decimal digits of a natural number, as str() writes them.
RECURSIVE DigitsOf(_)
DigitsOf(n) ==
    IF n < 10 THEN <<DigitChars[n + 1]>>
    ELSE DigitsOf(n \div 10) \o <<DigitChars[(n % 10) + 1]>>

\* The number a sequence of digits stands for.
RECURSIVE NatOf(_)
NatOf(cs) ==
    IF cs = <<>> THEN 0
    ELSE NatOf(SubSeq(cs, 1, Len(cs) - 1)) * 10 + DigitVal(cs[Len(cs)])

\* str.rstrip(), and the stripping of both ends that int() and float() do.
RECURSIVE rstrip(_)
rstrip(cs) ==
    IF cs # <<>> /\ cs[Len(cs)] \in Whitespace THEN rstrip(SubSeq(cs, 1, Len(cs) - 1))
    ELSE cs

RECURSIVE lstrip(_)
lstrip(cs) ==
    IF cs # <<>> /\ cs[1] \in Whitespace THEN lstrip(Tail(cs)) ELSE cs

strip(cs) == lstrip(rstrip(cs))

AllDigits(cs) == cs # <<>> /\ \A i \in 1..Len(cs) : IsDigit(cs[i])

\* int(text): the text, stripped, is digits (the texts here carry no sign).
IntParses(cs) == AllDigits(strip(cs))

IntOf(cs) == NatOf(strip(cs))

\* float(text): digits, or digits, a point and one digit (the floats here
\* have one decimal).
FloatParses(cs) ==
    LET x == strip(cs)
    IN \/ AllDigits(x)
       \/ /\ Len(x) >= 3
          /\ x[Len(x) - 1] = "."
          /\ IsDigit(x[Len(x)])
          /\ AllDigits(SubSeq(x, 1, Len(x) - 2))

FloatOf(cs) ==
    LET x == strip(cs)
    IN IF AllDigits(x) THEN NatOf(x) * 10
       ELSE NatOf(SubSeq(x, 1, Len(x) - 2)) * 10 + DigitVal(x[Len(x)])

\* f"{value}" in the command of write_variable.
Format(value) ==
    IF value.t = "int" THEN DigitsOf(value.v)
    ELSE IF value.t = "float"
         THEN DigitsOf(value.v \div 10) \o <<".">> \o DigitsOf(value.v % 10)
    ELSE IF value.t = "str" THEN value.v
    ELSE <<"N", "o", "n", "e">>

\* -------------------------------------------------------------------- Init
NoCall == [op |-> "none", eq |-> FALSE, sp |-> 0, pre |-> <<>>]

\* The devices as MonitorWindow.add_device leaves them: a device whose port
\* was found is open, one whose port was not found is never opened.
Connected == {"Light", "Temperature", "Flow"}

\* Schedule.__init__ after MonitorWindow.__init__ has connected the devices.
InitSchedule ==
    /\ conditions = <<>>
    /\ running = FALSE
    /\ run_index = 0
    /\ thread_run = 0
    /\ workers = [w \in WorkerIds |-> [pc |-> "none"]]
    /\ nstarted = 0
    /\ dev = [d \in Devices |-> [open |-> d \in Connected, on |-> FALSE, sp |-> 0]]
    /\ log = {}
    /\ ui = "idle"
    /\ win = "closed"
    /\ menu = [start |-> TRUE, stop |-> TRUE, reset |-> TRUE]
    /\ rows = <<>>
    /\ MAX_INDEX = 0
    /\ nopened = 0
    /\ stopped = FALSE
    /\ eqstop = -1
    /\ call = NoCall
    /\ removed = {}

Init == InitSchedule /\ InitPeriph

\* ------------------------------------------- Schedule._update_conditions
Goto(w, p) == workers' = [workers EXCEPT ![w].pc = p]

\* An exception that leaves _update_conditions ends the thread.
Crash(w) == Goto(w, "crashed")

InRange == run_index < Len(conditions)

CurrentRow == conditions[run_index + 1]

\* lines 258-259
W_Begin(w) ==
    /\ workers[w].pc = "begin"
    /\ run_index' = 0
    /\ running' = TRUE
    /\ Goto(w, "loop")
    /\ UNCHANGED <<conditions, thread_run, nstarted, dev, log, ui, win, menu,
                   rows, MAX_INDEX, nopened, stopped, eqstop, call, periph, removed>>

\* lines 260-261: the loop test, then 'Running ' + title, which raises
\* TypeError for a title of None.
W_Loop(w) ==
    /\ workers[w].pc = "loop"
    /\ IF ~InRange THEN Goto(w, "safe")
       ELSE IF CurrentRow.title = NoneStr THEN Crash(w)
       ELSE Goto(w, "setEq")
    /\ UNCHANGED <<conditions, running, run_index, thread_run, nstarted, dev,
                   log, ui, win, menu, rows, MAX_INDEX, nopened, stopped, eqstop, call, periph, removed>>

\* A status update that writes the first row whatever the run index.
set_run_status_first(w, status, next) ==
    IF ~InRange THEN Crash(w) /\ UNCHANGED conditions
    ELSE /\ conditions' = [conditions EXCEPT ![1].status = status]
         /\ Goto(w, next)

\* Schedule._set_run_status: the status is stored in the row, then the label
\* of the window row is looked up; get_row returns None when no window row
\* has that index and the attribute access raises.
set_run_status(w, status, next) ==
    IF ~InRange THEN Crash(w) /\ UNCHANGED conditions
    ELSE /\ conditions' = [conditions EXCEPT ![run_index + 1].status = status]
         /\ IF win = "open" /\ (\/ ~has_row(rows, run_index)
                               \/ get_row(rows, run_index) \in removed)
            THEN Crash(w)
            ELSE Goto(w, next)

\* line 262
W_SetEquilibrating(w) ==
    /\ workers[w].pc = "setEq"
    /\ set_run_status(w, "equilibrating", "applyEq")
    /\ UNCHANGED <<running, run_index, thread_run, nstarted, dev, log, ui, win,
                   menu, rows, MAX_INDEX, nopened, stopped, eqstop, call, periph, removed>>

\* apply(equilibration) followed by the call of pause.minutes(minutes), which
\* raises TypeError for None; otherwise the thread sleeps, and the step that
\* follows the sleep is taken when the minutes have passed.
apply_and_pause(w, equilibration, next) ==
    IF ~InRange THEN Crash(w) /\ UNCHANGED <<dev, log>>
    ELSE LET a == apply(CurrentRow, dev, log, equilibration)
             minutes == IF equilibration THEN CurrentRow.eq ELSE CurrentRow.dur
         IN /\ dev' = a.dev
            /\ log' = a.log
            /\ IF a.raised \/ minutes = None THEN Crash(w)
               ELSE Goto(w, next)

\* lines 263-264
W_ApplyEquilibration(w) ==
    /\ workers[w].pc = "applyEq"
    /\ apply_and_pause(w, TRUE, "pauseEq")
    /\ UNCHANGED <<conditions, running, run_index, thread_run, nstarted, ui,
                   win, menu, rows, MAX_INDEX, nopened, stopped, eqstop, call, periph, removed>>

\* lines 264-266: pause.minutes returns, the flag is polled.
W_CheckAfterEquilibration(w) ==
    /\ workers[w].pc = "pauseEq"
    /\ IF ~running THEN Goto(w, "safe") ELSE Goto(w, "setRun")
    /\ UNCHANGED <<conditions, running, run_index, thread_run, nstarted, dev,
                   log, ui, win, menu, rows, MAX_INDEX, nopened, stopped, eqstop, call, periph, removed>>

\* line 267
W_SetRunning(w) ==
    /\ workers[w].pc = "setRun"
    /\ set_run_status(w, "running", "applyRun")
    /\ UNCHANGED <<running, run_index, thread_run, nstarted, dev, log, ui, win,
                   menu, rows, MAX_INDEX, nopened, stopped, eqstop, call, periph, removed>>

\* lines 268-269
W_ApplyRun(w) ==
    /\ workers[w].pc = "applyRun"
    /\ apply_and_pause(w, FALSE, "pauseDur")
    /\ UNCHANGED <<conditions, running, run_index, thread_run, nstarted, ui,
                   win, menu, rows, MAX_INDEX, nopened, stopped, eqstop, call, periph, removed>>

\* lines 269-270: pause.minutes returns, the row is marked done.
W_SetDone(w) ==
    /\ workers[w].pc = "pauseDur"
    /\ set_run_status(w, "done", "inc")
    /\ UNCHANGED <<running, run_index, thread_run, nstarted, dev, log, ui, win,
                   menu, rows, MAX_INDEX, nopened, stopped, eqstop, call, periph, removed>>

\* lines 271-273: the index advances and the flag is polled.
W_NextRow(w) ==
    /\ workers[w].pc = "inc"
    /\ run_index' = run_index + 1
    /\ IF ~running THEN Goto(w, "safe") ELSE Goto(w, "loop")
    /\ UNCHANGED <<conditions, running, thread_run, nstarted, dev, log, ui, win,
                   menu, rows, MAX_INDEX, nopened, stopped, eqstop, call, periph, removed>>

\* line 274
W_Safestate(w) ==
    /\ workers[w].pc = "safe"
    /\ dev' = safestate(dev)
    /\ Goto(w, "enable")
    /\ UNCHANGED <<conditions, running, run_index, thread_run, nstarted, log,
                   ui, win, menu, rows, MAX_INDEX, nopened, stopped, eqstop, call, periph, removed>>

\* lines 275-276
W_EnableStart(w) ==
    /\ workers[w].pc = "enable"
    /\ menu' = IF win = "open" THEN enable_start(TRUE) ELSE menu
    /\ Goto(w, "done")
    /\ UNCHANGED <<conditions, running, run_index, thread_run, nstarted, dev,
                   log, ui, win, rows, MAX_INDEX, nopened, stopped, eqstop, call, periph, removed>>

\* ------------------------------------------------- the automation window
\* The entries after the operator has typed: each window row is left as it
\* is (Keep) or holds a row of values typed in.  Typing touches nothing but
\* the entries, which only the two callbacks that follow read.
Keep == [title |-> "keep", eq |-> 0, dur |-> 0, sp |-> 0]

Typing(wrows) ==
    {t \in [1..Len(wrows) -> RowInputs \cup {Keep}] : \A k \in removed : t[k] = Keep}

Typed(wrows, t) ==
    [k \in 1..Len(wrows) |->
        IF t[k] = Keep THEN wrows[k] ELSE [wrows[k] EXCEPT !.fields = t[k]]]

\* MonitorWindow._open_automation_window -> AutomationWindow.__init__: one
\* WindowRow per row of the schedule (each takes the next MAX_INDEX), or a
\* first empty row when the schedule has none.
OpenWindow ==
    /\ ui = "idle"
    /\ win = "closed"
    /\ nopened < MaxOpens
    /\ nopened' = nopened + 1
    /\ win' = "open"
    /\ menu' = IF running THEN [start |-> FALSE, stop |-> TRUE, reset |-> TRUE]
               ELSE [start |-> TRUE, stop |-> FALSE, reset |-> TRUE]
    /\ IF Len(conditions) = 0
       THEN /\ conditions' = <<NewScheduleRow>>
            /\ rows' = <<[index |-> MAX_INDEX, fields |-> update_from_schedule(NewScheduleRow)]>>
            /\ MAX_INDEX' = MAX_INDEX + 1
       ELSE /\ rows' = [k \in 1..Len(conditions) |->
                          [index |-> MAX_INDEX + k - 1,
                           fields |-> update_from_schedule(conditions[k])]]
            /\ MAX_INDEX' = MAX_INDEX + Len(conditions)
            /\ UNCHANGED conditions
    /\ removed' = {}
    /\ UNCHANGED <<running, run_index, thread_run, workers, nstarted, dev, log,
                   ui, stopped, eqstop, call, periph>>

\* AutomationWindow.destroy: the fields are written to the schedule first; a
\* ValueError keeps the window open.
CloseWindow ==
    /\ ui = "idle"
    /\ win = "open"
    /\ \E t \in Typing(rows) :
          LET typed == Typed(rows, t)
              s == update_fields_to_schedule(conditions, typed, MAX_INDEX, removed)
          IN /\ conditions' = s.conds
             /\ IF s.ok THEN win' = "closed" /\ rows' = <<>>
                ELSE win' = win /\ rows' = typed
    /\ UNCHANGED <<running, run_index, thread_run, workers, nstarted, dev, log,
                   ui, menu, MAX_INDEX, nopened, stopped, eqstop, call, periph, removed>>

\* AutomationWindow.add_row from the Add button or the menu: a new empty row
\* in the schedule and its WindowRow.
AddRow ==
    /\ ui = "idle"
    /\ win = "open"
    /\ Len(conditions) < MaxRows
    /\ conditions' = Append(conditions, NewScheduleRow)
    /\ rows' = Append(rows, [index |-> MAX_INDEX,
                             fields |-> update_from_schedule(NewScheduleRow)])
    /\ MAX_INDEX' = MAX_INDEX + 1
    /\ UNCHANGED <<running, run_index, thread_run, workers, nstarted, dev, log,
                   ui, win, menu, nopened, stopped, eqstop, call, periph, removed>>

\* AutomationWindow.start_schedule -> Schedule.start: a ValueError from the
\* fields ends the callback before anything is started.
StartSchedule ==
    /\ ui = "idle"
    /\ win = "open"
    /\ menu.start
    /\ nstarted < MaxStarts
    /\ \E t \in Typing(rows) :
          LET typed == Typed(rows, t)
              s == update_fields_to_schedule(conditions, typed, MAX_INDEX, removed)
              w == nstarted + 1
          IN /\ rows' = typed
             /\ IF ~s.ok
                THEN /\ conditions' = s.conds
                     /\ UNCHANGED <<thread_run, workers, nstarted, menu, eqstop>>
                ELSE /\ conditions' = reset_schedule(s.conds)
                     /\ thread_run' = w
                     /\ workers' = [workers EXCEPT ![w].pc = "begin"]
                     /\ nstarted' = w
                     /\ menu' = enable_start(FALSE)
                     /\ eqstop' = -1
    /\ UNCHANGED <<running, run_index, dev, log, ui, win, MAX_INDEX,
                   nopened, stopped, call, periph, removed>>

\* AutomationWindow.stop_schedule -> Schedule.stop, lines 190-191: the flag
\* is cleared and the Tk thread blocks in join(2); with no thread object the
\* join raises AttributeError, which ends the callback.
StopSchedule ==
    /\ ui = "idle"
    /\ win = "open"
    /\ menu.stop
    /\ running' = FALSE
    /\ stopped' = TRUE
    /\ eqstop' = IF \E w \in WorkerIds : workers[w].pc = "pauseEq"
                 THEN run_index ELSE -1
    /\ ui' = IF thread_run = 0 THEN "raised" ELSE "join"
    /\ UNCHANGED <<conditions, run_index, thread_run, workers, nstarted, dev,
                   log, win, menu, rows, MAX_INDEX, nopened, call, periph, removed>>

\* Tk reports the exception of a callback and goes back to its main loop.
CallbackRaised ==
    /\ ui = "raised"
    /\ ui' = "idle"
    /\ UNCHANGED <<conditions, running, run_index, thread_run, workers, nstarted,
                   dev, log, win, menu, rows, MAX_INDEX, nopened, stopped,
                   eqstop, call, periph, removed>>

\* Schedule.stop, lines 191-193, then enable_start(True): join(2) returns
\* when the thread has ended or after the two seconds, whichever is first.
StopReturns ==
    /\ ui = "join"
    /\ thread_run' = 0
    /\ dev' = safestate(dev)
    /\ menu' = enable_start(TRUE)
    /\ ui' = "idle"
    /\ UNCHANGED <<conditions, running, run_index, workers, nstarted, log, win,
                   rows, MAX_INDEX, nopened, stopped, eqstop, call, periph, removed>>

\* AutomationWindow.reset_schedule from the menu.
ResetSchedule ==
    /\ ui = "idle"
    /\ win = "open"
    /\ menu.reset
    /\ conditions' = reset_schedule(conditions)
    /\ UNCHANGED <<running, run_index, thread_run, workers, nstarted, dev, log,
                   ui, win, menu, rows, MAX_INDEX, nopened, stopped, eqstop, call, periph, removed>>

\* -------------------------------------------------------------------- Next
Worker(w) ==
    \/ W_Begin(w)
    \/ W_Loop(w)
    \/ W_SetEquilibrating(w)
    \/ W_ApplyEquilibration(w)
    \/ W_CheckAfterEquilibration(w)
    \/ W_SetRunning(w)
    \/ W_ApplyRun(w)
    \/ W_SetDone(w)
    \/ W_NextRow(w)
    \/ W_Safestate(w)
    \/ W_EnableStart(w)

Next ==
    \/ OpenWindow
    \/ CloseWindow
    \/ AddRow
    \/ StartSchedule
    \/ StopSchedule
    \/ CallbackRaised
    \/ StopReturns
    \/ ResetSchedule
    \/ \E w \in WorkerIds : Worker(w)

Spec == Init /\ [][Next]_vars

\* ------------------------------------------------ the passes on their own
\* ScheduleRow.apply and Schedule.safestate called on devices in any state:
\* every device open or not, enabled or not, at any setpoint.  `call` keeps
\* the arguments of the call and the devices as they were before it; `log`
\* holds what the call logged.
SetPoints == 0..MaxSp

DeviceStates(d) ==
    {st \in [open : BOOLEAN, on : BOOLEAN, sp : SetPoints] : has_enable(d) \/ ~st.on}

InitDevices ==
    /\ conditions = <<>>
    /\ running = FALSE
    /\ run_index = 0
    /\ thread_run = 0
    /\ workers = [w \in WorkerIds |-> [pc |-> "none"]]
    /\ nstarted = 0
    /\ dev \in [Devices -> [open : BOOLEAN, on : BOOLEAN, sp : SetPoints]]
    /\ \A d \in Devices : dev[d] \in DeviceStates(d)
    /\ log = {}
    /\ ui = "idle"
    /\ win = "closed"
    /\ menu = [start |-> TRUE, stop |-> TRUE, reset |-> TRUE]
    /\ rows = <<>>
    /\ MAX_INDEX = 0
    /\ nopened = 0
    /\ stopped = FALSE
    /\ eqstop = -1
    /\ call = NoCall
    /\ removed = {}
    /\ InitPeriph

\* row.apply(equilibration) for a row whose setpoint is a number.
CallApply ==
    \E sp \in SetPoints \ {0}, equilibration \in BOOLEAN :
        LET row == [NewScheduleRow EXCEPT !.title = "t", !.eq = 0, !.dur = 0, !.sp = sp]
            a == apply(row, dev, {}, equilibration)
        IN /\ dev' = a.dev
           /\ log' = a.log
           /\ call' = [op |-> "apply", eq |-> equilibration, sp |-> sp, pre |-> dev]
           /\ UNCHANGED <<conditions, running, run_index, thread_run, workers,
                          nstarted, ui, win, menu, rows, MAX_INDEX, nopened,
                          stopped, eqstop, periph, removed>>

\* schedule.safestate()
CallSafestate ==
    /\ dev' = safestate(dev)
    /\ log' = {}
    /\ call' = [op |-> "safestate", eq |-> FALSE, sp |-> 0, pre |-> dev]
    /\ UNCHANGED <<conditions, running, run_index, thread_run, workers, nstarted,
                   ui, win, menu, rows, MAX_INDEX, nopened, stopped, eqstop, periph, removed>>

NextDevices == CallApply \/ CallSafestate

SpecDevices == InitDevices /\ [][NextDevices]_vars

\* ------------------------------------------------------------ properties
\* The positions of a worker that has left _update_conditions.
Ended == {"done", "crashed"}

\* The positions of a worker inside the row loop of _update_conditions.
LoopPcs == {"loop", "setEq", "applyEq", "pauseEq", "setRun", "applyRun",
            "pauseDur", "inc"}

\* d1 is a safe state of the devices that were open in d0: every one with an
\* enable is off, every one without has setpoint 0.
AllSafe(d0, d1) ==
    \A d \in Devices :
        d0[d].open => IF has_enable(d) THEN ~d1[d].on ELSE d1[d].sp = 0

AllDone == Len(conditions) > 0 /\ \A k \in 1..Len(conditions) : conditions[k].status = "done"

\* C1: a worker that leaves the row loop by its exit (the rows are through or
\* the flag is cleared) goes to the safe-state pass, the pass leaves every
\* open device off (or at setpoint 0 when it has no enable), and the worker
\* ends normally only after the pass.
C1_SafestateBeforeWorkerEnds ==
    [][\A w \in WorkerIds :
          /\ (workers[w].pc \in LoopPcs /\ workers'[w].pc \notin LoopPcs \cup {"crashed"})
                => workers'[w].pc = "safe"
          /\ (workers[w].pc = "safe" /\ workers'[w].pc # "safe")
                => workers'[w].pc = "enable" /\ AllSafe(dev, dev')
          /\ (workers[w].pc # "done" /\ workers'[w].pc = "done")
                => workers[w].pc = "enable"]_vars

\* A worker has run the pass after the last row: a device with an enable and
\* one without are open and safe.
C1_Witness ==
    \E w \in WorkerIds :
        /\ workers[w].pc = "enable"
        /\ AllDone
        /\ ~stopped
        /\ dev["Light"].open /\ ~dev["Light"].on
        /\ dev["Flow"].open /\ dev["Flow"].sp = 0
        /\ AllSafe(dev, dev)

\* C2: every call of stop() clears the flag and waits in join, and returns
\* only with the safe-state pass made on every open device.
C2_StopRunsSafestate ==
    [][/\ (ui = "idle" /\ ui' # "idle") => (ui' = "join" /\ ~running')
       /\ (ui = "join" /\ ui' # "join") => (ui' = "idle" /\ AllSafe(dev, dev'))]_vars

\* A trace of C2: stop() is entered with no thread object and raises before
\* the pass.
C2_StopRaised == ui = "raised" /\ running = FALSE /\ \E d \in Devices : dev[d].open /\ dev[d].on

\* C3: once stop() has been called during row i's equilibration wait, row i
\* is not given status running or done, no row after i leaves ready, the
\* worker that waited goes to the safe-state pass when it wakes, and stop()
\* returns with the pass made.
C3_StopDuringEquilibration ==
    [][(eqstop >= 0 /\ eqstop' = eqstop) =>
          /\ \A k \in 1..Len(conditions) :
                k <= Len(conditions') =>
                   /\ (k = eqstop + 1 /\ conditions'[k].status \in {"running", "done"})
                         => conditions'[k].status = conditions[k].status
                   /\ (k > eqstop + 1 /\ conditions[k].status = "ready")
                         => conditions'[k].status = "ready"
          /\ \A w \in WorkerIds :
                (workers[w].pc = "pauseEq" /\ workers'[w].pc # "pauseEq")
                   => workers'[w].pc = "safe"
          /\ (ui = "join" /\ ui' # "join") => AllSafe(dev, dev')]_vars

StatusNext(st) ==
    IF st = "ready" THEN "equilibrating"
    ELSE IF st = "equilibrating" THEN "running"
    ELSE IF st = "running" THEN "done"
    ELSE "none"

\* C4: the status of a row changes only one step forward along ready,
\* equilibrating, running, done; the only other change is a reset, which
\* makes every row ready.
C4_StatusForwardOnly ==
    [][\A k \in 1..Len(conditions) :
          (k <= Len(conditions') /\ conditions'[k].status # conditions[k].status)
             => \/ conditions'[k].status = StatusNext(conditions[k].status)
                \/ \A j \in 1..Len(conditions') : conditions'[j].status = "ready"]_vars

\* C5: as long as stop() has not been called, a row that is no longer ready
\* is preceded by a row that is done, and the active row index does not
\* decrease while a worker stays in the row loop.
C5_RowsInOrder ==
    [][~stopped' =>
          /\ \A k \in 1..Len(conditions') :
                (k > 1 /\ conditions'[k].status \in {"equilibrating", "running", "done"})
                   => conditions'[k - 1].status = "done"
          /\ (\E w \in WorkerIds : workers[w].pc \in LoopPcs /\ workers'[w].pc \in LoopPcs)
                => run_index' >= run_index]_vars

AllFinite(conds) == \A k \in 1..Len(conds) : conds[k].eq # None /\ conds[k].dur # None

\* C6 (what a finite run shows of it): with no stop(), a worker whose
\* schedule has finite times in every row ends with every row done.
C6_EndsWithAllDone ==
    [][\A w \in WorkerIds :
          (/\ workers[w].pc \notin Ended
           /\ workers'[w].pc \in Ended
           /\ ~stopped'
           /\ AllFinite(conditions'))
             => Len(conditions') > 0 /\ \A k \in 1..Len(conditions') : conditions'[k].status = "done"]_vars

\* C7: at most one worker is in the row loop.
C7_OneWorkerInLoop == Cardinality({w \in WorkerIds : workers[w].pc \in LoopPcs}) <= 1

\* Two workers are in the row loop and share the row index.
C7_TwoWorkers ==
    /\ workers[1].pc \in LoopPcs
    /\ workers[2].pc \in LoopPcs
    /\ stopped

\* What apply(equilibration) leaves of a device d that was open: switched
\* off (setpoint 0 without an enable) when it is flagged and the call is for
\* the equilibration, otherwise on and at the setpoint of the row.
Applied(d) ==
    IF call.eq /\ off_during_equilibration(d)
    THEN IF has_enable(d)
         THEN ~dev[d].on /\ dev[d].sp = call.pre[d].sp
         ELSE dev[d].sp = 0 /\ dev[d].on = call.pre[d].on
    ELSE /\ dev[d].sp = call.sp
         /\ IF has_enable(d) THEN dev[d].on ELSE dev[d].on = call.pre[d].on

\* C8: after apply(equilibration) every device that was open is as the flag
\* asks: with equilibration=True a flagged device is off and the others are
\* on at the row's setpoint, with equilibration=False every device is on at
\* the row's setpoint.
C8_ApplyHonoursFlag ==
    call.op = "apply" =>
        \A d \in Devices : call.pre[d].open =>
            /\ Applied(d)
            /\ (~call.eq => dev[d].sp = call.sp /\ (has_enable(d) => dev[d].on))

\* An equilibration call on open devices: the lamp was on and is off, the
\* oven was off and is on, the flow has the row's setpoint.
C8_Witness ==
    /\ call.op = "apply"
    /\ call.eq
    /\ \A d \in Devices : call.pre[d].open
    /\ call.pre["Light"].on /\ ~dev["Light"].on
    /\ ~call.pre["Temperature"].on /\ dev["Temperature"].on
    /\ call.pre["Flow"].sp # call.sp /\ dev["Flow"].sp = call.sp

\* C9: after apply, every device that was not open has its error in the log
\* and is as it was, nothing else is logged, and every device that was open
\* has been applied.
C9_ClosedDeviceSkipped ==
    call.op = "apply" =>
        /\ log = {<<"apply", d>> : d \in {e \in Devices : ~call.pre[e].open}}
        /\ \A d \in Devices :
              IF call.pre[d].open THEN Applied(d) ELSE dev[d] = call.pre[d]

\* One device in the middle of the order is not open; the ones after it are
\* written.
C9_Witness ==
    /\ call.op = "apply"
    /\ ~call.eq
    /\ {d \in Devices : ~call.pre[d].open} = {"Pressure"}
    /\ log = {<<"apply", "Pressure">>}
    /\ ~call.pre["Temperature"].on /\ dev["Temperature"].on
    /\ call.pre["Flow"].sp # call.sp /\ dev["Flow"].sp = call.sp

\* C10: after the safe-state pass every device that was not open has a
\* warning in the log and is as it was, and every device that was open is in
\* its safe state.
C10_SafestateLogsClosed ==
    call.op = "safestate" =>
        /\ \A d \in Devices : ~call.pre[d].open =>
              <<"safestate", d>> \in log /\ dev[d] = call.pre[d]
        /\ AllSafe(call.pre, dev)

\* C11: a safe-state pass made right after a safe-state pass leaves the
\* enable and the setpoint of every device as the first pass left them.
C11_SafestateIdempotent ==
    [][(call.op = "safestate" /\ call'.op = "safestate") => dev' = dev]_vars

\* The pass has run on devices that were already safe: three open ones, off
\* or at setpoint 0, and one that is not open.
C11_Witness ==
    /\ call.op = "safestate"
    /\ AllSafe(call.pre, call.pre)
    /\ dev = call.pre
    /\ {d \in Devices : ~dev[d].open} = {"Pressure"}
    /\ dev["Pressure"].on

\* ------------------------------------------- Arduino: building the table
\* Calls of add_variable on a new Arduino, as the constructors of the
\* device classes make them, with any arguments.
Names == {"ID", "enable", "setpoint"}

Numbers == 0..MaxNumber

AccessInputs == {"rw", "W", "x"}

TypeInputs == {"int", "str", "bad"}

AddVariable ==
    \E name \in Names, number \in Numbers, access \in AccessInputs, type \in TypeInputs :
        LET a == add_variable(variables, name, number, access, type)
        IN /\ variables' = a.variables
           /\ acall' = [op |-> "add_variable", name |-> name, number |-> number,
                        access |-> access, type |-> type, error |-> a.error]
           /\ UNCHANGED <<conditions, running, run_index, thread_run, workers,
                          nstarted, dev, log, ui, win, menu, rows, MAX_INDEX,
                          nopened, stopped, eqstop, call, removed, thread_lock,
                          callers, outq, inbuf, store, bus, registry, links>>

SpecVariables == Init /\ [][AddVariable]_vars

\* Every variable has a number above 0 and no two names share a number.
TableOK(tab) ==
    /\ \A n \in DOMAIN tab : tab[n].number > 0
    /\ \A n, m \in DOMAIN tab : tab[n].number = tab[m].number => n = m

\* C13: after every call of add_variable the numbers of the table are above
\* 0 and differ from name to name; a call whose number is 0 or less or is
\* held by a variable, or whose access or type is not a valid one, logs an
\* error and leaves the table as it was.
C13_TableNumbersUnique ==
    [][/\ TableOK(variables')
       /\ (/\ acall'.op = "add_variable"
           /\ \/ acall'.number <= 0
              \/ acall'.number \in NumbersOf(variables)
              \/ acall'.access \notin {"r", "R", "w", "W", "rw", "RW"}
              \/ acall'.type \notin {"int", "float", "str", "none"})
             => variables' = variables /\ acall'.error # "none"]_vars

\* Three variables are registered and the last call, with the number of
\* another variable, was rejected.
C13_Witness ==
    /\ DOMAIN variables = Names
    /\ acall.op = "add_variable"
    /\ acall.error = "duplicate"
    /\ acall.number # variables[acall.name].number

\* C14: a call of add_variable with a registered name, a number above 0 that
\* no other name holds, and a valid access and type replaces the definition
\* of the name, and no number is held by two names afterwards.
C14_ReregisterOverwrites ==
    [][(/\ acall'.op = "add_variable"
        /\ acall'.name \in DOMAIN variables
        /\ acall'.number > 0
        /\ \A n \in DOMAIN variables \ {acall'.name} : variables[n].number # acall'.number
        /\ acall'.access \in {"r", "R", "w", "W", "rw", "RW"}
        /\ acall'.type \in {"int", "float", "str", "none"})
          => /\ variables'[acall'.name].number = acall'.number
             /\ variables'[acall'.name].type = acall'.type
             /\ acall'.error = "none"
             /\ TableOK(variables')]_vars

\* ------------------------- Arduino: read_variable and write_variable
\* read_variable, lines 152-156: the value returned when nothing is read.
Zero(type) ==
    IF type = "float" THEN PyFloat(0)
    ELSE IF type = "str" THEN PyStr(<<>>)
    ELSE PyInt(0)

\* A read_variable that returns the text as it was read.
ReadReturnsText(type, read_value) == [ret |-> PyStr(read_value), error |-> "none"]

\* read_variable, lines 167-182, for the text readline() gave ('' after the
\* timeout): the value returned and the error logged.  return_value is
\* bound to the text read before the conversion, so that is what line 182
\* returns when the conversion raises ValueError.
ReadReturns(type, read_value) ==
    IF read_value = <<>> THEN [ret |-> Zero(type), error |-> "none"]
    ELSE IF type = "float"
         THEN IF FloatParses(read_value)
              THEN [ret |-> PyFloat(FloatOf(read_value)), error |-> "none"]
              ELSE [ret |-> PyStr(read_value), error |-> "failed"]
    ELSE IF type = "int"
         THEN IF IntParses(read_value)
              THEN [ret |-> PyInt(IntOf(read_value)), error |-> "none"]
              ELSE [ret |-> PyStr(read_value), error |-> "failed"]
    ELSE IF type = "str" THEN [ret |-> PyStr(rstrip(read_value)), error |-> "none"]
    ELSE [ret |-> PyStr(read_value), error |-> "none"]

\* write_variable, lines 203-205: the text after '=' in the command.
WriteText(type, value) ==
    IF value = PyNone \/ type = "none" THEN <<>> ELSE Format(value)

\* The end of a call: the lock is released (leaving the with block) and the
\* call is recorded with what it returned and logged.
Returns(t, record) ==
    /\ callers' = [callers EXCEPT ![t] = Idle]
    /\ acall' = record

ReadRecord(t, name, sent, reply, ret, error) ==
    [op |-> "read", thread |-> t, name |-> name, value |-> PyNone, sent |-> sent,
     reply |-> reply, ret |-> ret, error |-> error]

WriteRecord(t, name, value, sent, error) ==
    [op |-> "write", thread |-> t, name |-> name, value |-> value, sent |-> sent,
     reply |-> <<>>, ret |-> PyNone, error |-> error]

\* A with block that takes the lock whoever holds it.
acquire_unlocked(t) == thread_lock' = t

\* with self._thread_lock: the thread goes on when the lock is free.
acquire(t) == thread_lock = "free" /\ thread_lock' = t

release(t) == thread_lock' = "free"

\* A read_variable without the check of lines 157-159.
ReadEnterUnchecked(t, name) ==
    /\ callers[t] = Idle
    /\ name \in DOMAIN variables
    /\ acquire(t)
    /\ callers' = [callers EXCEPT ![t] =
                     [pc |-> "flush", op |-> "read", name |-> name, value |-> PyNone]]
    /\ UNCHANGED <<acall, variables, outq, inbuf, store, schedvars, bus, registry, links>>

\* read_variable, lines 149-160: the two checks, then the lock.
ReadEnter(t, name) ==
    /\ callers[t] = Idle
    /\ IF name \notin DOMAIN variables
       THEN /\ acall' = ReadRecord(t, name, FALSE, <<>>, PyInt(0), "unknown")
            /\ UNCHANGED <<thread_lock, callers>>
       ELSE IF variables[name].access \in access_W
       THEN /\ acall' = ReadRecord(t, name, FALSE, <<>>, Zero(variables[name].type),
                                   "write-only")
            /\ UNCHANGED <<thread_lock, callers>>
       ELSE /\ acquire(t)
            /\ callers' = [callers EXCEPT ![t] =
                             [pc |-> "flush", op |-> "read", name |-> name, value |-> PyNone]]
            /\ UNCHANGED acall
    /\ UNCHANGED <<variables, outq, inbuf, store, schedvars, bus, registry, links>>

\* write_variable, lines 192-198.
WriteEnter(t, name, value) ==
    /\ callers[t] = Idle
    /\ IF name \notin DOMAIN variables
       THEN /\ acall' = WriteRecord(t, name, value, FALSE, "unknown")
            /\ UNCHANGED <<thread_lock, callers>>
       ELSE IF variables[name].access \in access_R
       THEN /\ acall' = WriteRecord(t, name, value, FALSE, "read-only")
            /\ UNCHANGED <<thread_lock, callers>>
       ELSE /\ acquire(t)
            /\ callers' = [callers EXCEPT ![t] =
                             [pc |-> "flush", op |-> "write", name |-> name, value |-> value]]
            /\ UNCHANGED acall
    /\ UNCHANGED <<variables, outq, inbuf, store, schedvars, bus, registry, links>>

\* An exception caught at lines 179-181 / 207-209: it is logged, the with
\* block is left, read_variable returns return_value, still the zero.
Failed(t) ==
    LET c == callers[t]
    IN /\ release(t)
       /\ Returns(t, IF c.op = "read"
                     THEN ReadRecord(t, c.name, c.pc = "recv", <<>>,
                                     Zero(variables[c.name].type), "failed")
                     ELSE WriteRecord(t, c.name, c.value, FALSE, "failed"))

\* lines 162-164 / 200-202: flush_buffer_in empties the inbound buffer, or
\* the serial interface raises.
Flush(t) ==
    /\ callers[t].pc = "flush"
    /\ \E raised \in BOOLEAN :
          IF raised THEN Failed(t) /\ UNCHANGED inbuf
          ELSE /\ inbuf' = <<>>
               /\ callers' = [callers EXCEPT ![t].pc = "send"]
               /\ UNCHANGED <<thread_lock, acall>>
    /\ UNCHANGED <<variables, outq, store, schedvars, bus, registry, links>>

\* lines 165-166 / 203-206: the command is written, or the write raises; a
\* write_variable ends here.
Send(t) ==
    LET c == callers[t]
        v == variables[c.name]
    IN /\ c.pc = "send"
       /\ \E raised \in BOOLEAN :
             IF raised THEN Failed(t) /\ UNCHANGED outq
             ELSE /\ Len(outq) < MaxQueue
                  /\ IF c.op = "read"
                     THEN /\ outq' = Append(outq, [c |-> "R", number |-> v.number, text |-> <<>>])
                          /\ callers' = [callers EXCEPT ![t].pc = "recv"]
                          /\ UNCHANGED <<thread_lock, acall>>
                     ELSE /\ outq' = Append(outq, [c |-> "S", number |-> v.number,
                                                   text |-> WriteText(v.type, c.value)])
                          /\ release(t)
                          /\ Returns(t, WriteRecord(t, c.name, c.value, TRUE, "none"))
       /\ UNCHANGED <<variables, inbuf, store, schedvars, bus, registry, links>>

\* lines 167-178: readline() gives the first line of the inbound buffer, or
\* '' when the second has passed with none there, or raises.
Receive(t) ==
    LET c == callers[t]
        type == variables[c.name].type
    IN /\ c.pc = "recv"
       /\ \E raised \in BOOLEAN :
             IF raised THEN Failed(t) /\ UNCHANGED inbuf
             ELSE LET read_value == IF inbuf = <<>> THEN <<>> ELSE Head(inbuf)
                      r == ReadReturns(type, read_value)
                  IN /\ inbuf' = IF inbuf = <<>> THEN inbuf ELSE Tail(inbuf)
                     /\ release(t)
                     /\ Returns(t, ReadRecord(t, c.name, TRUE, read_value, r.ret, r.error))
       /\ UNCHANGED <<variables, outq, store, schedvars, bus, registry, links>>

\* The device, as the protocol in the docstring of Arduino has it: `Sx=y`
\* sets variable x and is not answered, `Rx` is answered with a line, the
\* value of x or some other response; the answer may also never come.
Line(text) == text \o <<"\n">>

OtherResponse == <<"x", "\n">>

DeviceTakes ==
    /\ outq # <<>>
    /\ outq' = Tail(outq)
    /\ LET cmd == Head(outq)
       IN IF cmd.c = "S"
          THEN /\ store' = IF cmd.number \in DOMAIN store
                           THEN [store EXCEPT ![cmd.number] = cmd.text] ELSE store
               /\ UNCHANGED inbuf
          ELSE /\ \E answer \in {<<OtherResponse>>, <<>>} \cup
                                  {<<Line(store[n])>> : n \in {cmd.number} \cap DOMAIN store} :
                     inbuf' = inbuf \o answer
               /\ UNCHANGED store
    /\ UNCHANGED <<variables, thread_lock, callers, acall, schedvars, bus, registry, links>>

\* A device with variables of every access and type: the table that
\* BackPressureRegulator.__init__ builds, without the entries from
\* valve_position on but calibration_1.
DeviceVariables ==
    LET t1 == add_variable(ArduinoVariables, "enable", 2, "rw", "int").variables
        t2 == add_variable(t1, "setpoint", 3, "rw", "float").variables
        t3 == add_variable(t2, "pressure", 4, "r", "float").variables
    IN add_variable(t3, "calibration_1", 6, "w", "float").variables

\* What the device holds when the port is opened.
DeviceStore ==
    (1 :> <<"i", "d">>) @@ (2 :> <<"0">>) @@ (3 :> <<"0", ".", "0">>)
        @@ (4 :> <<"1", ".", "5">>)

InitArduino ==
    /\ InitSchedule
    /\ variables = DeviceVariables
    /\ thread_lock = "free"
    /\ callers = [t \in Threads |-> Idle]
    /\ outq = <<>>
    /\ inbuf = <<>>
    /\ store = DeviceStore
    /\ acall = NoDriverCall
    /\ InitBus
    /\ InitRegistry
    /\ InitLinks

\* The names and the values the callers pass.
CallNames == DOMAIN DeviceVariables \cup {"nosuch"}

CallValues ==
    {PyInt(12), PyFloat(25), PyStr(<<"a", "b">>), PyStr(<<"a", "b", " ">>), PyNone}

\* The values a driver passes for a name: of the type of the variable, or
\* None.
ValuesFor(name) ==
    IF name \in DOMAIN DeviceVariables
    THEN {v \in CallValues : v = PyNone \/ v.t = DeviceVariables[name].type}
    ELSE {PyNone}

\* One thread calls the device.
NextExchange ==
    \/ \E name \in CallNames : ReadEnter("worker", name)
    \/ \E name \in CallNames : \E value \in ValuesFor(name) : WriteEnter("worker", name, value)
    \/ Flush("worker")
    \/ Send("worker")
    \/ Receive("worker")
    \/ DeviceTakes

SpecExchange == InitArduino /\ [][NextExchange]_vars

\* The UI thread, the poller and the schedule worker call the device; the
\* names and values are those of the set point and of the pressure.
SharedNames == {"setpoint", "pressure"}

NextArduino ==
    \/ \E t \in Threads : \E name \in SharedNames : ReadEnter(t, name)
    \/ \E t \in Threads : \E name \in SharedNames : WriteEnter(t, name, PyFloat(25))
    \/ \E t \in Threads : Flush(t)
    \/ \E t \in Threads : Send(t)
    \/ \E t \in Threads : Receive(t)
    \/ DeviceTakes

SpecArduino == InitArduino /\ [][NextArduino]_vars

\* The threads inside an exchange: between entering the with block and
\* leaving it.
Inside == {t \in Threads : callers[t].pc \in {"flush", "send", "recv"}}

\* C12: for one serial device at most one thread at a time is inside an
\* exchange (flush, send, await the reply), whatever the interleaving of the
\* calls of the UI thread, the poller and the schedule worker; the lock is
\* held by the thread inside and by nobody once it has left, on every path,
\* those with an I/O error included.
C12_OneThreadInExchange ==
    /\ Cardinality(Inside) <= 1
    /\ \A t \in Threads : t \in Inside <=> thread_lock = t
    /\ Inside = {} <=> thread_lock = "free"

\* A call of one thread has failed with an I/O error after its command was
\* sent, and another thread is awaiting its reply.
C12_Witness ==
    /\ acall # NoDriverCall
    /\ acall.thread = "ui" /\ acall.error = "failed" /\ acall.sent
    /\ callers["poller"].pc = "recv"
    /\ thread_lock = "poller"

\* A call the driver must refuse: a name the table does not have, a read of
\* a write-only variable, a write of a read-only one.
Refused(rec) ==
    /\ rec.op \in {"read", "write"}
    /\ \/ rec.name \notin DOMAIN variables
       \/ rec.op = "read" /\ variables[rec.name].access \in {"w", "W"}
       \/ rec.op = "write" /\ variables[rec.name].access \in {"r", "R"}

\* C15: read_variable on an unknown or a write-only name and write_variable
\* on an unknown or a read-only name send nothing on the serial line and log
\* an error; the read returns the zero value of the declared type (0 when
\* the name is unknown).
C15_RefusedCallSendsNothing ==
    [][(acall' # acall /\ Refused(acall'))
          => /\ outq' = outq
             /\ ~acall'.sent
             /\ acall'.error \in {"unknown", "write-only", "read-only"}
             /\ acall'.op = "read" =>
                   acall'.ret = IF acall'.name \notin DOMAIN variables THEN PyInt(0)
                                ELSE IF variables[acall'.name].type = "float" THEN PyFloat(0)
                                ELSE IF variables[acall'.name].type = "str" THEN PyStr(<<>>)
                                ELSE PyInt(0)]_vars

\* The write-only float calibration_1 was read: refused, 0.0 returned.
C15_Witness ==
    /\ acall # NoDriverCall
    /\ acall.op = "read" /\ acall.name = "calibration_1"
    /\ acall.error = "write-only" /\ ~acall.sent
    /\ acall.ret = PyFloat(0)

\* The text converts to the type.
Converts(type, text) ==
    \/ type = "float" /\ FloatParses(text)
    \/ type = "int" /\ IntParses(text)
    \/ type \in {"str", "none"}

\* C16: read_variable returns the zero value of the declared type (0, 0.0,
\* '') both when no reply arrives before the timeout and when the reply
\* cannot be converted to the declared type.
C16_ZeroOnTimeoutOrBadReply ==
    (/\ acall # NoDriverCall
     /\ acall.op = "read" /\ acall.sent
     /\ acall.name \in DOMAIN variables
     /\ \/ acall.reply = <<>>
        \/ ~Converts(variables[acall.name].type, acall.reply))
    => acall.ret = Zero(variables[acall.name].type)

\* The part of C16 that holds: the timeout.
C16_ZeroOnTimeout ==
    /\ acall # NoDriverCall
    /\ acall.op = "read" /\ acall.sent /\ acall.error = "none"
    /\ acall.name = "setpoint"
    /\ acall.reply = <<>>
    /\ acall.ret = PyFloat(0)

\* The last call read the variable of the entry, and the reply was the text
\* the device holds for it after a write of v.
ReadBack(v) ==
    /\ acall # NoDriverCall
    /\ acall.op = "read" /\ acall.sent
    /\ acall.name \in DOMAIN variables
    /\ LET e == variables[acall.name]
       IN /\ e.access \in access_RW
          /\ v.t = e.type
          /\ e.number \in DOMAIN store
          /\ store[e.number] = WriteText(e.type, v)
          /\ acall.reply = Line(store[e.number])

\* C17 as stated: on a device that stores what it is sent, a read of a
\* read-write variable after a write of a value of the declared type yields
\* that value.
C17_RoundTripEqual ==
    \A v \in CallValues \ {PyNone} : ReadBack(v) => acall.ret = v

\* C17, amended: the value read back is of the declared type and equal to
\* the value written, for a string up to the trailing whitespace, which
\* read_variable removes.
C17_RoundTrip ==
    \A v \in CallValues \ {PyNone} :
        ReadBack(v) => acall.ret = IF v.t = "str" THEN PyStr(rstrip(v.v)) ELSE v

\* The set point 2.5 was written and read back as the float 2.5.
C17_Witness ==
    /\ ReadBack(PyFloat(25))
    /\ acall.name = "setpoint"
    /\ acall.ret = PyFloat(25)

\* ------------------------------------ MappedModbusClient.write_command
MaxWrites == 2

\* E5CRegisters: the commands of the temperature controller that the
\* driver uses, with one that has a data byte above 0x03 and the one with
\* the highest command code.  data is the enum (name -> value) or, for an
\* action, the data byte.
Registers ==
    [comm_write |-> [command_code |-> 0, register_type |-> "command",
                     data |-> [OFF |-> 0, ON |-> 1]],
     run_stop |-> [command_code |-> 1, register_type |-> "command",
                   data |-> [RUN |-> 0, STOP |-> 1]],
     at_exec_cancel |-> [command_code |-> 3, register_type |-> "command",
                         data |-> [AT_CANCEL |-> 0, AT_EXEC_100PCT |-> 1,
                                   AT_EXEC_40PCT |-> 2]],
     save_ram_data |-> [command_code |-> 5, register_type |-> "command_action",
                        data |-> 0],
     software_reset |-> [command_code |-> 6, register_type |-> "command_action",
                         data |-> 0],
     alarm_latch_cancel |-> [command_code |-> 12, register_type |-> "command",
                             data |-> [AL1 |-> 0, AL2 |-> 1, AL3 |-> 2, HBAL |-> 3,
                                       HSAL |-> 4, AL4 |-> 5, ALL |-> 15]],
     program_start |-> [command_code |-> 17, register_type |-> "command",
                        data |-> [RESET |-> 0, START |-> 1]]]

\* 'action' in register['register_type']
IsAction(register) == register.register_type = "command_action"

RECURSIVE Pow256(_)
Pow256(n) == IF n = 0 THEN 1 ELSE 256 * Pow256(n - 1)

\* struct.pack("<...") of one unsigned item of size bytes: its bytes, the
\* lowest first.
PackItem(word, size) == [i \in 1..size |-> (word \div Pow256(i - 1)) % 256]

RECURSIVE Pack(_, _)
Pack(words, size) ==
    IF words = <<>> THEN <<>> ELSE PackItem(Head(words), size) \o Pack(Tail(words), size)

\* struct.unpack(">...") of one unsigned item: the bytes, the highest first.
RECURSIVE Unpack(_)
Unpack(bytes) ==
    IF bytes = <<>> THEN 0
    ELSE Unpack(SubSeq(bytes, 1, Len(bytes) - 1)) * 256 + bytes[Len(bytes)]

\* A conversion that keeps the order of the bytes of the host.
hton_host(words, insize, outsize) ==
    LET RECURSIVE Host(_)
        Host(ws) == IF ws = <<>> THEN 0
                    ELSE Head(ws) + Pow256(insize) * Host(Tail(ws))
    IN [raised |-> FALSE, val |-> Host(words)]

\* _hton: the words, padded in front with zeros up to insize of them, are
\* packed as items of insize bytes and the bytes unpacked as one item of
\* outsize * 2 bytes; struct.error when an item does not fit its size or
\* the bytes are not as many as the item unpacked has.
hton(words, insize, outsize) ==
    LET pad == [i \in 1..(IF insize > Len(words) THEN insize - Len(words) ELSE 0) |-> 0]
        val == pad \o words
        bytes == Pack(val, insize)
    IN IF (\E i \in 1..Len(val) : val[i] < 0 \/ val[i] >= Pow256(insize))
          \/ Len(bytes) # outsize * 2
       THEN [raised |-> TRUE, val |-> 0]
       ELSE [raised |-> FALSE, val |-> Unpack(bytes)]

\* write_command up to the write: the value for the register, or the
\* exception raised.
command_value(command, mode) ==
    LET register == Registers[command]
    IN IF IsAction(register)
       THEN IF mode = ""
            THEN hton(<<register.command_code, register.data>>, 1, 1)
            ELSE [raised |-> TRUE, val |-> 0]
       ELSE IF mode \in DOMAIN register.data
            THEN hton(<<register.command_code, register.data[mode]>>, 1, 1)
            ELSE [raised |-> TRUE, val |-> 0]

Commands == DOMAIN Registers

\* The modes passed: none, the members of the enums, a name that is in none.
Modes ==
    {"", "on"} \cup UNION {DOMAIN Registers[c].data : c \in {c \in Commands : ~IsAction(Registers[c])}}

\* write_command(command, mode): the value is computed or the call raises;
\* one write_register(address=0x0000, value=val); an error response is
\* logged.
WriteCommand ==
    /\ Len(written) < MaxWrites
    /\ \E command \in Commands : \E mode \in Modes : \E isError \in BOOLEAN :
          LET r == command_value(command, mode)
          IN /\ written' = IF r.raised THEN written
                           ELSE Append(written, [address |-> 0, value |-> r.val])
             /\ acall' = [op |-> "write_command", command |-> command, mode |-> mode,
                          raised |-> r.raised,
                          error |-> IF ~r.raised /\ isError THEN "response" ELSE "none"]
    /\ UNCHANGED <<variables, thread_lock, callers, outq, inbuf, store, schedvars, registry, links>>

SpecCommand == Init /\ [][WriteCommand]_vars

\* C18: write_command raises, and writes nothing, when a mode is given for
\* an action command or the mode is not a member of the enum of a command
\* that is not an action; otherwise it makes exactly one register write,
\* of the 16-bit value command_code * 256 + data byte.
C18_WriteCommand ==
    [][(acall' # acall \/ written' # written) =>
          LET register == Registers[acall'.command]
              refused == IF register.register_type = "command_action"
                         THEN acall'.mode # ""
                         ELSE acall'.mode \notin DOMAIN register.data
              byte == IF register.register_type = "command_action"
                      THEN register.data ELSE register.data[acall'.mode]
          IN IF refused
             THEN acall'.raised /\ written' = written
             ELSE /\ ~acall'.raised
                  /\ register.command_code * 256 + byte < 65536
                  /\ written' = Append(written,
                                       [address |-> 0,
                                        value |-> register.command_code * 256 + byte])]_vars

\* alarm_latch_cancel ALL was written as 0x0C0F after a call that raised
\* left the register alone.
C18_Witness ==
    /\ acall # NoDriverCall
    /\ acall.op = "write_command"
    /\ acall.command = "alarm_latch_cancel" /\ acall.mode = "ALL"
    /\ ~acall.raised
    /\ written = <<[address |-> 0, value |-> 3087]>>

\* --------------------------------------------------- KnownDevices._compare
\* The parameters compared.  The serial number and the manufacturer are
\* strings, the vendor and product ids are integers; a port that does not
\* give one has None there.
StrKeys == {"serial_number", "manufacturer"}

IntKeys == {"vid", "pid"}

\* bool(device_data_parameter) for the parameter of the key: None, 0 and ''
\* are false.
bool(parameter, key) ==
    IF key \in IntKeys THEN parameter \notin {None, 0} ELSE parameter \notin {NoneStr, ""}

\* A comparison that takes a parameter the known device lacks as matching
\* every port.
compare_wildcard(device_data_parameter, known_device, known_device_parameter_key) ==
    IF known_device_parameter_key \notin DOMAIN known_device THEN TRUE
    ELSE IF bool(device_data_parameter, known_device_parameter_key)
         THEN device_data_parameter = known_device[known_device_parameter_key]
    ELSE FALSE

\* _compare_device_parameter, lines 128-132.
compare_device_parameter(device_data_parameter, known_device, known_device_parameter_key) ==
    IF known_device_parameter_key \notin DOMAIN known_device
    THEN ~bool(device_data_parameter, known_device_parameter_key)
    ELSE IF bool(device_data_parameter, known_device_parameter_key)
         THEN device_data_parameter = known_device[known_device_parameter_key]
    ELSE FALSE

\* _read_custom_id, lines 102-103: the port has an entry in the cache.
cached(device_data) == device_data.device \in DOMAIN custom_id_cache

\* _read_custom_id: the entry of the cache or, with none, the port is opened
\* and its ID read; custom_id is what read_variable('ID') gives there, None when
\* the port could not be opened.
read_custom_id(device_data) ==
    IF cached(device_data) THEN custom_id_cache[device_data.device]
    ELSE device_data.custom_id

\* _compare, lines 143-158.
compare(device_data, known_device) ==
    IF ~compare_device_parameter(device_data.serial_number, known_device, "serial_number")
    THEN FALSE
    ELSE IF ~compare_device_parameter(device_data.vid, known_device, "vid") THEN FALSE
    ELSE IF ~compare_device_parameter(device_data.pid, known_device, "pid") THEN FALSE
    ELSE IF ~compare_device_parameter(device_data.manufacturer, known_device,
                                      "manufacturer")
         THEN FALSE
    ELSE IF "serial_number" \notin DOMAIN known_device /\ "custom_id" \in DOMAIN known_device
         THEN known_device.custom_id = read_custom_id(device_data)
    ELSE TRUE

\* An entry of a known device: the key with its value, or nothing.
Parameter(key, present, value) ==
    IF present THEN key :> value ELSE [k \in {} |-> k]

\* The known devices compared: every choice of parameters recorded.
Identities ==
    {Parameter("serial_number", sn, "ABC123") @@ Parameter("vid", v, 1)
        @@ Parameter("pid", p, 2) @@ Parameter("manufacturer", m, "FTDI")
        @@ Parameter("custom_id", c, "mfc") :
     sn \in BOOLEAN, v \in BOOLEAN, p \in BOOLEAN, m \in BOOLEAN, c \in BOOLEAN}

\* The ports compared, as comports() describes them.
Descriptors ==
    [device : {"COM1"},
     serial_number : {NoneStr, "", "ABC123", "XYZ"},
     vid : {None, 1},
     pid : {None, 2},
     manufacturer : {NoneStr, "FTDI"},
     custom_id : {NoneStr, "mfc"}]

Compare ==
    /\ \E device_data \in Descriptors : \E known_device \in Identities :
          acall' = [op |-> "compare", port |-> device_data, known |-> known_device,
                    result |-> compare(device_data, known_device)]
    /\ UNCHANGED <<variables, thread_lock, callers, outq, inbuf, store, schedvars, bus,
                   registry, links>>

SpecCompare == Init /\ [][Compare]_vars

\* The port has the parameter: its value is not None, 0 or ''.
Has(port, key) ==
    IF key \in {"vid", "pid"} THEN port[key] \notin {None, 0}
    ELSE port[key] \notin {NoneStr, ""}

\* For each of the four parameters the known device records it and the port
\* has that value, or it lacks it and the port lacks it too.
FieldsAgree(port, known) ==
    \A key \in {"serial_number", "vid", "pid", "manufacturer"} :
        \/ key \in DOMAIN known /\ Has(port, key) /\ port[key] = known[key]
        \/ key \notin DOMAIN known /\ ~Has(port, key)

\* C19 as stated: a port matches a known identity if and only if the four
\* parameters agree.
C19_MatchIffFieldsAgree ==
    (acall # NoDriverCall /\ acall.op = "compare")
        => (acall.result <=> FieldsAgree(acall.port, acall.known))

\* C19, amended: a port matches a known identity if and only if the four
\* parameters agree and, when the identity records a custom id and no serial
\* number, the id read from the port equals it; so an identity with only a
\* serial number does not match a port with another or no serial number.
C19_Match ==
    (acall # NoDriverCall /\ acall.op = "compare")
        => (acall.result <=>
               /\ FieldsAgree(acall.port, acall.known)
               /\ ("serial_number" \notin DOMAIN acall.known
                      /\ "custom_id" \in DOMAIN acall.known)
                  => acall.port.custom_id = acall.known.custom_id)

\* An identity with only a serial number was compared with a port that has
\* none and nothing else either: no match.
C19_Witness ==
    /\ acall # NoDriverCall
    /\ acall.op = "compare"
    /\ DOMAIN acall.known = {"serial_number"}
    /\ acall.port.serial_number = NoneStr
    /\ acall.port.vid = None /\ acall.port.pid = None
    /\ acall.port.manufacturer = NoneStr
    /\ ~acall.result

\* ------------------------------------------------ KnownDevices.__getitem__
MaxPorts == 2

\* The ports that can be attached: two regulators with the same serial
\* number, a lamp known by vendor and product, a port that no known device
\* describes, a flow controller told apart by its custom id.
Port(device, serial_number, vid, pid, custom_id) ==
    [device |-> device, serial_number |-> serial_number, vid |-> vid, pid |-> pid,
     manufacturer |-> NoneStr, custom_id |-> custom_id]

Attachable ==
    {Port("COM1", "ABC123", None, None, NoneStr),
     Port("COM2", "ABC123", None, None, NoneStr),
     Port("COM3", NoneStr, 1, 2, NoneStr),
     Port("COM4", "XYZ", 1, 2, NoneStr),
     Port("COM5", NoneStr, 1, 3, "mfc")}

\* config/device_config.json: the configurations, one with a device that
\* is not known.
Configurations ==
    [Test |-> <<[name |-> "BPR1", type |-> "Pressure"]>>,
     Bench |-> <<[name |-> "Lamp", type |-> "Light"], [name |-> "MFC", type |-> "Flow"]>>,
     Old |-> <<[name |-> "BPR1", type |-> "Pressure"], [name |-> "BPR2", type |-> "Pressure"]>>,
     Flows |-> <<[name |-> "MFC", type |-> "Flow"], [name |-> "MFC2", type |-> "Flow"]>>]

DeviceNames == {"BPR1", "Lamp", "MFC", "MFC2", "BPR2"}

\* _compare gets to line 157 and _read_custom_id to line 106: the four
\* parameters agree, the known device has a custom id and no serial number,
\* the cache has no entry for the port; an Arduino is opened on the port.
opens_port(device_data, known_device) ==
    /\ compare_device_parameter(device_data.serial_number, known_device, "serial_number")
    /\ compare_device_parameter(device_data.vid, known_device, "vid")
    /\ compare_device_parameter(device_data.pid, known_device, "pid")
    /\ compare_device_parameter(device_data.manufacturer, known_device, "manufacturer")
    /\ "serial_number" \notin DOMAIN known_device
    /\ "custom_id" \in DOMAIN known_device
    /\ ~cached(device_data)

\* The ports opened by the loop of __getitem__, in order.
RECURSIVE opened_by(_, _)
opened_by(connected_devices, known_device) ==
    IF connected_devices = <<>> THEN <<>>
    ELSE LET here == IF opens_port(Head(connected_devices), known_device)
                     THEN <<Head(connected_devices).device>> ELSE <<>>
         IN IF compare(Head(connected_devices), known_device) THEN here
            ELSE here \o opened_by(Tail(connected_devices), known_device)

\* A search that goes on to the last matching port.
RECURSIVE last_match(_, _)
last_match(connected_devices, known_device) ==
    IF connected_devices = <<>> THEN NoneStr
    ELSE IF compare(connected_devices[Len(connected_devices)], known_device)
         THEN connected_devices[Len(connected_devices)].device
    ELSE last_match(SubSeq(connected_devices, 1, Len(connected_devices) - 1), known_device)

\* __getitem__, lines 190-192 and 195: the loop over the ports.
RECURSIVE first_match(_, _)
first_match(connected_devices, known_device) ==
    IF connected_devices = <<>> THEN NoneStr
    ELSE IF compare(Head(connected_devices), known_device)
         THEN Head(connected_devices).device
    ELSE first_match(Tail(connected_devices), known_device)

\* load() when there are no known devices, lines 184-185.
loaded == IF known_devices = NoKnownDevices THEN known_file ELSE known_devices

\* KnownDevices.__getitem__ once the table is loaded: the port, None, or
\* the KeyError.
getitem(known, connected_devices, device_name) ==
    IF known = NoKnownDevices THEN [raised |-> TRUE, ret |-> NoneStr, opened |-> <<>>]
    ELSE IF device_name \in DOMAIN known
         THEN [raised |-> FALSE, ret |-> first_match(connected_devices, known[device_name]),
               opened |-> opened_by(connected_devices, known[device_name])]
    ELSE [raised |-> TRUE, ret |-> NoneStr, opened |-> <<>>]

\* A port is plugged in or pulled out.
Attach ==
    /\ Len(attached) < MaxPorts
    /\ \E port \in Attachable :
          /\ \A i \in 1..Len(attached) : attached[i] # port
          /\ attached' = Append(attached, port)
    /\ UNCHANGED <<known_devices, known_file, custom_id_cache, acall, variables, thread_lock, callers,
                   outq, inbuf, store, schedvars, bus, links>>

Detach ==
    /\ \E i \in 1..Len(attached) :
          attached' = SubSeq(attached, 1, i - 1) \o SubSeq(attached, i + 1, Len(attached))
    /\ UNCHANGED <<known_devices, known_file, custom_id_cache, acall, variables, thread_lock, callers,
                   outq, inbuf, store, schedvars, bus, links>>

\* known_devices[device_name]
GetItem ==
    /\ \E device_name \in DeviceNames :
          LET r == getitem(loaded, attached, device_name)
          IN acall' = [op |-> "getitem", name |-> device_name, ports |-> attached,
                       raised |-> r.raised, ret |-> r.ret, opened |-> r.opened]
    /\ known_devices' = loaded
    /\ UNCHANGED <<attached, known_file, custom_id_cache, variables, thread_lock, callers, outq, inbuf,
                   store, schedvars, bus, links>>

\* DeviceConfiguration.__getitem__ for a configuration of the file: the
\* port of each device in turn; a KeyError of one ends the call.
GetConfiguration ==
    /\ \E configuration_name \in DOMAIN Configurations :
          LET configuration == Configurations[configuration_name]
              r == [i \in 1..Len(configuration) |->
                       getitem(loaded, attached, configuration[i].name)]
              raised == \E i \in 1..Len(configuration) : r[i].raised
              RECURSIVE OpenedFrom(_)
              OpenedFrom(i) == IF i > Len(configuration) \/ r[i].raised THEN <<>>
                               ELSE r[i].opened \o OpenedFrom(i + 1)
          IN acall' = [op |-> "configuration", name |-> configuration_name,
                       ports |-> attached, raised |-> raised,
                       opened |-> OpenedFrom(1),
                       ret |-> IF raised THEN <<>>
                               ELSE [i \in 1..Len(configuration) |->
                                        [name |-> configuration[i].name,
                                         type |-> configuration[i].type,
                                         comport |-> r[i].ret]]]
    /\ known_devices' = loaded
    /\ UNCHANGED <<attached, known_file, custom_id_cache, variables, thread_lock, callers, outq, inbuf,
                   store, schedvars, bus, links>>

\* The file of known devices is there, or is missing or has no entry.
InitResolve ==
    /\ InitSchedule
    /\ InitLinks
    /\ variables = ArduinoVariables
    /\ InitLine
    /\ acall = NoDriverCall
    /\ InitBus
    /\ attached = <<>>
    /\ known_devices = NoKnownDevices
    /\ known_file \in {KnownDevicesFile, NoKnownDevices}
    /\ custom_id_cache = NoKnownDevices

NextResolve == Attach \/ Detach \/ GetItem \/ GetConfiguration

SpecResolve == InitResolve /\ [][NextResolve]_vars

\* The positions of the ports that match the known device.
Matching(ports, known_device) ==
    {i \in 1..Len(ports) : compare(ports[i], known_device)}

\* What resolving the name must give with these ports: the path of the
\* matching port listed first, None when there is none.
Resolved(ports, device_name) ==
    LET ms == Matching(ports, known_file[device_name])
    IN IF ms = {} THEN NoneStr
       ELSE ports[CHOOSE i \in ms : \A j \in ms : i <= j].device

\* C20: resolving a device name returns the path of the first attached port
\* that matches the named identity, returns None without raising when no
\* attached port matches (no port attached included), and raises an error
\* when the name is not a known identity; a configuration is resolved
\* device by device.
C20_Resolve ==
    /\ (acall # NoDriverCall /\ acall.op = "getitem") =>
          IF acall.name \in DOMAIN known_file
          THEN ~acall.raised /\ acall.ret = Resolved(acall.ports, acall.name)
          ELSE acall.raised
    /\ (acall # NoDriverCall /\ acall.op = "configuration") =>
          LET configuration == Configurations[acall.name]
          IN IF \A i \in 1..Len(configuration) : configuration[i].name \in DOMAIN known_file
             THEN /\ ~acall.raised
                  /\ Len(acall.ret) = Len(configuration)
                  /\ \A i \in 1..Len(configuration) :
                        acall.ret[i].comport = Resolved(acall.ports, configuration[i].name)
             ELSE acall.raised

\* Two ports with the serial number of BPR1 are attached, after a port that
\* does not match: BPR1 resolved to the first of them.
C20_Witness ==
    /\ acall # NoDriverCall
    /\ acall.op = "getitem" /\ acall.name = "BPR1"
    /\ Len(acall.ports) = 2
    /\ acall.ports[1].device = "COM2" /\ acall.ports[2].device = "COM1"
    /\ acall.ret = "COM2"

\* C21: within one resolution pass the custom id of a port is read from the
\* device at most once: after the first read the value is in the cache, and
\* later comparisons with the same port do not open it again.
C21_PortOpenedOnce ==
    (acall # NoDriverCall /\ acall.op \in {"getitem", "configuration"}) =>
        \A i, j \in 1..Len(acall.opened) : acall.opened[i] = acall.opened[j] => i = j

\* A single known device was resolved: its port was opened once.
C21_OneRead ==
    /\ acall # NoDriverCall
    /\ acall.op = "getitem" /\ acall.name = "MFC"
    /\ acall.opened = <<"COM5">>
    /\ acall.ret = "COM5"

\* --------------------------------------------- the schedule during a run
\* The values of a row that the operator enters: all but the status.
Entered(row) == [title |-> row.title, eq |-> row.eq, dur |-> row.dur, sp |-> row.sp]

\* C22: while a schedule worker is running (it is in the row loop) the list
\* of rows and every value of a row but the status stay as they are: adding,
\* removing and editing in the window do not reach the schedule before the
\* run has stopped or is through.
C22_ScheduleFixedWhileRunning ==
    [][(\E w \in WorkerIds : workers[w].pc \in LoopPcs) =>
          /\ Len(conditions') = Len(conditions)
          /\ \A k \in 1..Len(conditions) : Entered(conditions'[k]) = Entered(conditions[k])]_vars

\* A worker is in the row loop and the window is open with Start disabled
\* and the Add button at hand.
C22_RunningWithWindow ==
    /\ workers[1].pc = "pauseEq"
    /\ running
    /\ win = "open" /\ ui = "idle"
    /\ ~menu.start
    /\ Len(conditions) = 1

\* The first stop() has been entered: with one thread spawned, the Stop
\* entry is enabled only once start_schedule has returned.
StopIssued == nstarted = 1 /\ stopped

\* The first stop() has returned: only Schedule.stop, line 192, sets
\* _thread_run back to None.
StopReturned == StopIssued /\ thread_run = 0 /\ ui = "idle"

\* C23: a stop() issued after start() has returned is not lost: at its next
\* phase boundary (the poll after the equilibration wait, the poll after
\* the row) the worker finds the flag cleared and leaves the loop, whatever
\* the interleaving of the start of the thread with stop().
C23_StopNotLost ==
    [][StopIssued =>
          /\ (workers[1].pc = "pauseEq" => workers'[1].pc # "setRun")
          /\ (workers[1].pc = "inc" => workers'[1].pc # "loop")]_vars

\* The stop() came during the equilibration wait: the worker found the flag
\* cleared and went to the safe-state pass.
C23_StopObserved ==
    /\ StopIssued
    /\ eqstop = 0
    /\ workers[1].pc = "safe"
    /\ ~running

\* C24: once stop() has returned, the stopped worker makes no write that
\* turns a device on or sets a setpoint other than 0: the devices stay in
\* the safe state until the next start().
C24_NoWriteAfterStop ==
    [][StopReturned =>
          \A d \in Devices :
              /\ dev'[d].on => dev[d].on
              /\ dev'[d].sp # 0 => dev'[d].sp = dev[d].sp]_vars

\* stop() returned after join(2) had run out with the worker in the
\* duration wait; the worker has ended since and the devices are safe.
C24_StoppedInWait ==
    /\ StopReturned
    /\ eqstop = -1
    /\ workers[1].pc = "done"
    /\ ~running
    /\ conditions[1].status = "done"
    /\ AllSafe(dev, dev)

\* C25: after the worker has been through all rows without a stop,
\* Schedule.running is False, so that a window opened afterwards offers
\* Start and not Stop.
C25_NotRunningWhenThrough ==
    (nstarted = 1 /\ ~stopped /\ workers[1].pc = "done") => ~running

\* The worker has ended after its one row and no stop was issued.
C25_Through ==
    /\ nstarted = 1
    /\ ~stopped
    /\ workers[1].pc = "done"
    /\ Len(conditions) = 1
    /\ conditions[1].status = "done"

\* ------------------------------------------ the drivers: open and close
\* Arduino.is_open (Light, Pressure), MassFlowController.is_open (Flow),
\* TemperatureControl.is_open.
is_open(d) ==
    IF d \in ArduinoDevices THEN serial_iface[d].is_open
    ELSE IF d = "Flow" THEN instrument # NoneStr
    ELSE IF modbus_client.made THEN modbus_client.connected ELSE FALSE

\* How the Modbus library reports a request that got no reply: by raising
\* ModbusIOException, or by returning it as the result.
ModbusNoReply == {"raises", "returns"}

\* MappedModbusClient.disconnect: the port is closed, `connected` is left.
disconnect(client) == [client EXCEPT !.port_open = FALSE]

\* Arduino.open: close(), then Serial.open(); SerialException is logged.
ArduinoOpen(d) ==
    /\ serial_iface' = [serial_iface EXCEPT ![d].is_open = reachable[d] # "none"]
    /\ acall' = [op |-> "open", d |-> d,
                 result |-> IF reachable[d] # "none" THEN "connected" ELSE "failed"]
    /\ UNCHANGED <<instrument, modbus_client>>

\* MassFlowController.open: propar.instrument(comport) raises for a port
\* that cannot be opened; with no answer fluid_name is None and strip()
\* raises AttributeError, the one exception caught.
MassFlowControllerOpen(d) ==
    /\ instrument' = IF reachable[d] = "device" THEN "instrument"
                     ELSE IF reachable[d] = "port" THEN NoneStr ELSE instrument
    /\ acall' = [op |-> "open", d |-> d,
                 result |-> IF reachable[d] = "device" THEN "connected"
                            ELSE IF reachable[d] = "port" THEN "failed" ELSE "raised"]
    /\ UNCHANGED <<serial_iface, modbus_client>>

\* TemperatureControl.open: a new client; connect() sets `connected`; the
\* commands that follow get no reply from a device that does not answer:
\* ModbusIOException is caught and the client disconnected, or the error
\* results are logged by write_command and the sequence goes on.
TemperatureControlOpen(d, noreply) ==
    LET client == [made |-> TRUE, connected |-> reachable[d] # "none",
                   port_open |-> reachable[d] # "none"]
    IN /\ modbus_client' = IF reachable[d] = "port" /\ noreply = "raises"
                           THEN disconnect(client) ELSE client
       /\ acall' = [op |-> "open", d |-> d,
                    result |-> IF reachable[d] = "device" THEN "connected"
                               ELSE IF reachable[d] = "none" THEN "failed"
                               ELSE IF noreply = "raises" THEN "failed"
                               ELSE "connected"]
       /\ UNCHANGED <<serial_iface, instrument>>

\* DevicePane.connect_device -> device.open(comport), once for each device.
Open(d) ==
    /\ acall = NoDriverCall \/ acall.op \in {"open", "close"}
    /\ ~is_open(d)
    /\ IF d \in ArduinoDevices THEN ArduinoOpen(d)
       ELSE IF d = "Flow" THEN MassFlowControllerOpen(d)
       ELSE \E noreply \in ModbusNoReply : TemperatureControlOpen(d, noreply)
    /\ UNCHANGED <<schedvars, variables, thread_lock, callers, outq, inbuf,
                   store, bus, registry, reachable>>

\* Arduino.close
ArduinoClose(d) ==
    /\ serial_iface' = [serial_iface EXCEPT ![d].is_open = FALSE]
    /\ acall' = [op |-> "close", d |-> d, result |-> "closed"]
    /\ UNCHANGED <<instrument, modbus_client>>

\* MassFlowController.close
MassFlowControllerClose(d) ==
    /\ instrument' = NoneStr
    /\ acall' = [op |-> "close", d |-> d, result |-> "closed"]
    /\ UNCHANGED <<serial_iface, modbus_client>>

\* TemperatureControl.close: write_command('save_ram_data'), which may raise
\* with no reply, then disconnect().
TemperatureControlClose(d, noreply) ==
    LET raised == /\ modbus_client.made
                  /\ reachable[d] # "device"
                  /\ noreply = "raises"
    IN /\ modbus_client' = IF modbus_client.made /\ ~raised
                           THEN disconnect(modbus_client) ELSE modbus_client
       /\ acall' = [op |-> "close", d |-> d,
                    result |-> IF raised THEN "raised" ELSE "closed"]
       /\ UNCHANGED <<serial_iface, instrument>>

\* MonitorWindow.destroy -> device.close(), or close() called on its own.
Close(d) ==
    /\ acall = NoDriverCall \/ acall.op \in {"open", "close"}
    /\ IF d \in ArduinoDevices THEN ArduinoClose(d)
       ELSE IF d = "Flow" THEN MassFlowControllerClose(d)
       ELSE \E noreply \in ModbusNoReply : TemperatureControlClose(d, noreply)
    /\ UNCHANGED <<schedvars, variables, thread_lock, callers, outq, inbuf,
                   store, bus, registry, reachable>>

\* The port of a device goes away, the device stops answering or comes back.
Reaches(d) ==
    /\ \E r \in Reach \ {reachable[d]} : reachable' = [reachable EXCEPT ![d] = r]
    /\ UNCHANGED <<schedvars, variables, thread_lock, callers, outq, inbuf,
                   store, acall, bus, registry, serial_iface, instrument,
                   modbus_client>>

NextDrivers == \E d \in Devices : Open(d) \/ Close(d) \/ Reaches(d)

SpecDrivers == Init /\ [][NextDrivers]_vars

\* C27: for every driver is_open() returns False after close() and after an
\* open() that failed with a transport error.
C27_ClosedIsNotOpen ==
    (/\ acall # NoDriverCall
     /\ \/ acall.op = "close" /\ acall.result = "closed"
        \/ acall.op = "open" /\ acall.result \in {"failed", "raised"})
        => ~is_open(acall.d)

\* The temperature controller was connected and close() has returned.
C27_TemperatureClosed ==
    /\ acall # NoDriverCall
    /\ acall.op = "close"
    /\ acall.d = "Temperature"
    /\ acall.result = "closed"
    /\ modbus_client.made
    /\ ~modbus_client.port_open

\* --------------------------------- the worker with devices that may fail
\* One device-linked parameter of ScheduleRow.apply or Schedule.safestate on
\* a device that is open and does not answer (reach is not "device"), what
\* is logged: Arduino.write_variable / read_variable log a SerialException
\* when the port is gone, a read that times out returns 0 with no log, and
\* MassFlowController.write_parameter logs nothing.
FailureLogged(d, reach) ==
    IF d \in ArduinoDevices /\ reach = "none" THEN {<<"failed", d>>} ELSE {}

\* TemperatureControl.read_onoff -> read_status -> _read_register reads
\* `registers` of the result; with no reply the read raises or the result
\* has no registers, and only ValueError is caught.
read_onoff_raises(d, reach) == d = "Temperature" /\ reach # "device"

\* ScheduleRow.apply from the i-th parameter on, with the devices answering
\* or not as `reach` tells.
RECURSIVE ApplyFromLinks(_, _, _, _, _, _)
ApplyFromLinks(i, d0, lg, value, equilibration, reach) ==
    IF i > Len(DeviceOrder) THEN [dev |-> d0, log |-> lg, raised |-> FALSE]
    ELSE LET d == DeviceOrder[i]
         IN IF ~d0[d].open
            THEN ApplyFromLinks(i + 1, d0, lg \cup {<<"apply", d>>}, value,
                                equilibration, reach)
            ELSE IF reach[d] = "device"
            THEN LET d1 == [d0 EXCEPT ![d] = ApplyParameter(d, d0[d], value, equilibration)]
                 IN IF ApplyRaises(d, d0[d], value, equilibration)
                    THEN [dev |-> d1, log |-> lg, raised |-> TRUE]
                    ELSE ApplyFromLinks(i + 1, d1, lg, value, equilibration, reach)
            ELSE IF read_onoff_raises(d, reach[d])
                    /\ ~(off_during_equilibration(d) /\ equilibration)
            THEN [dev |-> d0, log |-> lg, raised |-> TRUE]
            ELSE ApplyFromLinks(i + 1, d0, lg \cup FailureLogged(d, reach[d]), value,
                                equilibration, reach)

\* Schedule.safestate from the i-th parameter on.  TemperatureControl.write_onoff
\* -> write_command: with no reply write_register raises, or its error result
\* is logged.
RECURSIVE SafeFromLinks(_, _, _, _, _)
SafeFromLinks(i, d0, lg, reach, noreply) ==
    IF i > Len(DeviceOrder) THEN [dev |-> d0, log |-> lg, raised |-> FALSE]
    ELSE LET d == DeviceOrder[i]
         IN IF ~d0[d].open \/ reach[d] = "device"
            THEN SafeFromLinks(i + 1, [d0 EXCEPT ![d] = SafeParameter(d, d0[d])], lg,
                               reach, noreply)
            ELSE IF d = "Temperature"
            THEN IF noreply = "raises" THEN [dev |-> d0, log |-> lg, raised |-> TRUE]
                 ELSE SafeFromLinks(i + 1, d0, lg \cup {<<"failed", d>>}, reach, noreply)
            ELSE SafeFromLinks(i + 1, d0, lg \cup FailureLogged(d, reach[d]), reach,
                               noreply)

\* lines 263-264 and 268-269 with the devices as `reachable` tells.
F_Apply(w, equilibration, next) ==
    /\ InRange
    /\ LET a == ApplyFromLinks(1, dev, log, CurrentRow.sp, equilibration, reachable)
       IN /\ dev' = a.dev
          /\ log' = a.log
          /\ IF a.raised THEN Crash(w) ELSE Goto(w, next)
    /\ UNCHANGED <<conditions, running, run_index, thread_run, nstarted, ui,
                   win, menu, rows, MAX_INDEX, nopened, stopped, eqstop, call, periph, removed>>

F_ApplyEquilibration(w) ==
    /\ workers[w].pc = "applyEq"
    /\ F_Apply(w, TRUE, "pauseEq")

F_ApplyRun(w) ==
    /\ workers[w].pc = "applyRun"
    /\ F_Apply(w, FALSE, "pauseDur")

\* line 274 with the devices as `reachable` tells.
F_Safestate(w) ==
    /\ workers[w].pc = "safe"
    /\ \E noreply \in ModbusNoReply :
          LET a == SafeFromLinks(1, dev, log, reachable, noreply)
          IN /\ dev' = a.dev
             /\ log' = a.log
             /\ IF a.raised THEN Crash(w) ELSE Goto(w, "enable")
    /\ UNCHANGED <<conditions, running, run_index, thread_run, nstarted, ui,
                   win, menu, rows, MAX_INDEX, nopened, stopped, eqstop, call, periph, removed>>

\* The rows of a schedule entered through the window.
ReadyRow == [status |-> "ready", title |-> "t", eq |-> 0, dur |-> 0, sp |-> 1]

\* The schedule of one or two rows has been started and its window closed;
\* the thread is about to run _update_conditions.
InitFailure ==
    /\ conditions \in {<<ReadyRow>>, <<ReadyRow, ReadyRow>>}
    /\ running = FALSE
    /\ run_index = 0
    /\ thread_run = 1
    /\ workers = [w \in WorkerIds |-> [pc |-> IF w = 1 THEN "begin" ELSE "none"]]
    /\ nstarted = 1
    /\ dev = [d \in Devices |-> [open |-> d \in Connected, on |-> FALSE, sp |-> 0]]
    /\ log = {}
    /\ ui = "idle"
    /\ win = "closed"
    /\ menu = enable_start(FALSE)
    /\ rows = <<>>
    /\ MAX_INDEX = Len(conditions)
    /\ nopened = 1
    /\ stopped = FALSE
    /\ eqstop = -1
    /\ call = NoCall
    /\ removed = {}
    /\ InitPeriph

NextFailure ==
    \/ \E d \in Devices : Reaches(d)
    \/ W_Begin(1)
    \/ W_Loop(1)
    \/ W_SetEquilibrating(1)
    \/ F_ApplyEquilibration(1)
    \/ W_CheckAfterEquilibration(1)
    \/ W_SetRunning(1)
    \/ F_ApplyRun(1)
    \/ W_SetDone(1)
    \/ W_NextRow(1)
    \/ F_Safestate(1)
    \/ W_EnableStart(1)

SpecFailure == InitFailure /\ [][NextFailure]_vars

\* C26: a device that does not answer while a row is applied does not end
\* the worker: apply() and the safe-state pass return and the worker goes on
\* to its next step.
C26_FailureDoesNotEndWorker ==
    [][workers[1].pc \in {"applyEq", "applyRun", "safe"} => workers'[1].pc # "crashed"]_vars

\* The light's port was gone while the rows were applied: the failure was
\* logged and the worker went through the rows and the safe-state pass.
C26_LoggedAndThrough ==
    /\ <<"failed", "Light">> \in log
    /\ workers[1].pc = "done"
    /\ AllDone
    /\ Len(conditions) = 2

\* ----------------------------------------- the reply and its request
\* The thread t leaves read_variable with the line it has read.
ReadsReply(t) ==
    /\ callers[t].pc = "recv"
    /\ callers'[t] = Idle
    /\ acall'.op = "read"
    /\ acall'.reply # <<>>

\* C28: every value returned by read_variable is the device's reply to that
\* same request: when a read returns a line, the device has taken the
\* command of this read from the line (a line read while the command is
\* still on its way answers an earlier request).
C28_ReplyToThisRequest ==
    [][\A t \in Threads : ReadsReply(t) => outq = <<>>]_vars

\* A read of the pressure has returned the line the device sent for it.
C28_OwnReply ==
    /\ acall # NoDriverCall
    /\ acall.op = "read"
    /\ acall.name = "pressure"
    /\ acall.reply = Line(DeviceStore[4])
    /\ acall.ret = PyFloat(15)
    /\ outq = <<>>
    /\ inbuf = <<>>

\* ------------------------------------------------ removing window rows
\* WindowRow.remove from the Remove button of the k-th window row: the
\* widgets of the row are destroyed and MAX_INDEX is counted down; the row
\* stays in AutomationWindow.rows, with its index and its schedule row.
RemoveRow(k) ==
    /\ ui = "idle"
    /\ win = "open"
    /\ k \in 1..Len(rows)
    /\ k \notin removed
    /\ removed' = removed \cup {k}
    /\ MAX_INDEX' = MAX_INDEX - 1
    /\ UNCHANGED <<conditions, running, run_index, thread_run, workers, nstarted,
                   dev, log, ui, win, menu, rows, nopened, stopped, eqstop, call,
                   periph>>

\* The operator opens the window, adds and removes rows, types, resets the
\* statuses, closes the window and opens it again.
NextWindow ==
    \/ OpenWindow
    \/ CloseWindow
    \/ AddRow
    \/ \E k \in 1..MaxRows : RemoveRow(k)
    \/ ResetSchedule

SpecWindow == Init /\ [][NextWindow]_vars

\* C29: with the window open, for every i below the length of the schedule
\* get_row(i) returns the window row linked to row i of the schedule, with
\* its status label in place.
C29_RowOfEveryScheduleRow ==
    win = "open" =>
        \A i \in 0..(Len(conditions) - 1) :
            /\ get_row(rows, i) = i + 1
            /\ get_row(rows, i) \notin removed

\* A row was added in the first window and none removed: both rows are
\* found under the index of their schedule row.
C29_FirstWindow ==
    /\ win = "open"
    /\ nopened = 1
    /\ Len(conditions) = 2
    /\ removed = {}
    /\ get_row(rows, 0) = 1
    /\ get_row(rows, 1) = 2

\* ---------------------------------------------- what a run leaves alone
\* A step of the thread w in _update_conditions.
WorkerStep(w) == workers[w].pc # "none" /\ workers'[w] # workers[w]

\* C30: a run changes nothing in the schedule but the status of rows: a
\* step of the worker leaves the number of rows and the title, the times and
\* the setpoints of every row, and writes the status of no row but the one
\* at the run index.
C30_RunWritesStatusOnly ==
    [][\A w \in WorkerIds : WorkerStep(w) =>
          /\ Len(conditions') = Len(conditions)
          /\ \A k \in 1..Len(conditions) :
                /\ Entered(conditions'[k]) = Entered(conditions[k])
                /\ conditions'[k].status # conditions[k].status => k = run_index + 1]_vars

\* The worker is in the run phase of the second row, the first is done.
C30_SecondRowRunning ==
    /\ workers[1].pc = "applyRun"
    /\ run_index = 1
    /\ Len(conditions) = 2
    /\ conditions[1].status = "done"
    /\ conditions[2].status = "running"
    /\ Entered(conditions[2]) = [title |-> "t", eq |-> 0, dur |-> 0, sp |-> 1]

====
